---------------------------- MODULE Spec2Model ----------------------------
(***************************************************************************)
(* The stroke/object interaction engine of the drawing pad: the            *)
(* long-press input router (DrawingManager, src/unnamed/part_004:834-1869),*)
(* its touch-driven undo (CanvasManager, src/unnamed/part_004:1-113), the  *)
(* async dispatcher (AIUploadHandler, src/aiUploadHandler.js; AIGenerator, *)
(* src/ai.js; ImageGenerator, src/imageGen.js) and the snapshot history    *)
(* (the simple-undo package the constructor instantiates).                 *)
(*                                                                         *)
(* JavaScript objects are modelled by a heap: obj maps an object id to the *)
(* entity stored there, arr maps an array id to the ordered ids it holds.  *)
(* Two references are the same object exactly when the ids are equal.      *)
(* Lengths are in canvas units; one time unit is 1000 ms.                  *)
(***************************************************************************)
EXTENDS Integers, Sequences, FiniteSets, TLC

VARIABLES
    dm,        \* the DrawingManager's fields
    obj,       \* heap: entity objects (strokes, image objects)
    arr,       \* heap: the scene arrays (the live one and the snapshots)
    undoManager,  \* the SimpleUndo instance: stack and position
    timers,    \* pending setTimeout callbacks of startLongTap
    tasks,     \* dispatched async actions (handleAIUpload activations)
    menu,      \* AIGenerator.pendingEditOptions and the chips shown
    env,       \* the input devices: pen contact and touch points
    ring,      \* pending frame callbacks of the progress-ring animation
    toast,     \* the last message handed to showToast
    hist       \* history: the last handler ended with an uncaught exception;
               \* the lasso selection the finger on the glass has taken hold of;
               \* the call of a canvas action the last step has made

vars == <<dm, obj, arr, undoManager, timers, tasks, menu, env, ring, toast, hist>>

-----------------------------------------------------------------------------
(* Bounds of the model *)

MaxStrokes == 2      \* entities in the scene list
MaxPoints == 2
MaxSnapshots == 3
MaxTasks == 1
MaxTimers == 4
MaxTouches == 2
MaxLasso == 3
CanvasWidth == 1200
CanvasHeight == 400

Null == 0

\* JavaScript null where the model needs a value of the field's own shape.
NoPoint == << >>
NoStroke == [type |-> "none"]
NoBytes == << >>

\* Positions the pen's pointer events report (canvas coordinates).
PenPts == { <<600, 0>> }

\* Positions the touch pointer events report: where the pen draws (which is
\* also inside a placeholder image), within the movement tolerance of it,
\* and in the drop zone of the top-right corner.
TouchPts == { <<600, 0>>, <<610, 0>>, <<1200, 0>> }

\* Pressures the pen reports, in tenths.
PenPressures == { 8 }

\* The pressure of an event that reports none (event.pressure undefined).
NoPressure == -1

\* Decoded sizes <<width, height>> the image service's results can have.
DecodedSizes == { <<2, 1>>, <<1, 1>> }

-----------------------------------------------------------------------------
(* Sequences and the heap *)

Range(s) == { s[i] : i \in 1..Len(s) }

Min(S) == CHOOSE x \in S : \A y \in S : x <= y

Max(S) == CHOOSE x \in S : \A y \in S : y <= x

\* Array.prototype.indexOf: the first position holding x, 0 when absent
\* (positions are 1-based here, so JavaScript's -1 is 0).
IndexOf(s, x) ==
    IF x \in Range(s) THEN Min({ i \in 1..Len(s) : s[i] = x }) ELSE 0

\* Array.prototype.splice(index, 1) at a 1-based position.
SpliceOut(s, i) == [ k \in 1..(Len(s) - 1) |-> IF k < i THEN s[k] ELSE s[k + 1] ]

\* The id a newly created object gets: ids are never shared by two live objects.
FreshId(used) == Min({ n \in 1..(Cardinality(used) + 1) : n \notin used })

\* The live scene list, this.strokes.
Scene(w) == w.arr[w.dm.strokes]

\* The world with a new entity object; NewId(w) is its reference.
NewId(w) == FreshId(DOMAIN w.obj)

Alloc(w, rec) == [w EXCEPT !.obj = w.obj @@ (NewId(w) :> rec)]

IsImage(w, id) == w.obj[id].type = "image-object"

-----------------------------------------------------------------------------
(* Geometry *)

Sq(n) == n * n

\* The squared Euclidean distance: Math.sqrt(dx^2 + dy^2) <= t is Dist2 <= t^2.
Dist2(a, b) == Sq(a[1] - b[1]) + Sq(a[2] - b[2])

HitTolerance == 20
ImageBorder == 10
MoveTolerance == 10
DropRadius == 100
NearbyTolerance == 50

\* One entity under the point: an image object by its rectangle grown by the
\* border, an ink stroke by a vertex within the tolerance.  Coordinates are
\* doubled so that width / 2 stays an integer.
HitsEntity(e, point) ==
    IF e.type = "image-object"
    THEN /\ 2 * point[1] >= 2 * e.position[1] - e.width - 2 * ImageBorder
         /\ 2 * point[1] <= 2 * e.position[1] + e.width + 2 * ImageBorder
         /\ 2 * point[2] >= 2 * e.position[2] - e.height - 2 * ImageBorder
         /\ 2 * point[2] <= 2 * e.position[2] + e.height + 2 * ImageBorder
    ELSE \E j \in 1..Len(e.points) : Dist2(point, e.points[j]) <= Sq(HitTolerance)

\* The search that returns the first entity of the list that is hit.
findBottomStroke(w, point) ==
    LET s == Scene(w)
        hits == { i \in 1..Len(s) : HitsEntity(w.obj[s[i]], point) }
    IN  IF hits = {} THEN Null ELSE s[Min(hits)]

findStrokeAtPoint(w, point) ==
    LET s == Scene(w)
        hits == { i \in 1..Len(s) : HitsEntity(w.obj[s[i]], point) }
    IN  IF hits = {} THEN Null ELSE s[Max(hits)]

\* Twice the centre of an entity's bounding box (getStrokeBounds).
Centre2(e) ==
    IF e.type = "image-object"
    THEN << 2 * e.position[1], 2 * e.position[2] >>
    ELSE IF Len(e.points) = 0 THEN << 0, 0 >>
    ELSE LET xs == { e.points[j][1] : j \in 1..Len(e.points) }
             ys == { e.points[j][2] : j \in 1..Len(e.points) }
         IN  << Min(xs) + Max(xs), Min(ys) + Max(ys) >>

IsNearby(t, e, tolerance) ==
    \/ Dist2(Centre2(t), Centre2(e)) <= 4 * Sq(tolerance)
    \/ /\ t.type # "image-object"
       /\ e.type # "image-object"
       /\ \E i \in 1..Len(t.points), j \in 1..Len(e.points) :
              Dist2(t.points[i], e.points[j]) <= Sq(tolerance)

findNearbyStrokes(w, target, tolerance) ==
    LET s == Scene(w)
        Near(id) == id # target /\ IsNearby(w.obj[target], w.obj[id], tolerance)
    IN  << target >> \o SelectSeq(s, Near)

\* The drag point is within the drop radius of the canvas's top-right corner.
OverCorner(point) == Dist2(point, << CanvasWidth, 0 >>) < Sq(DropRadius)

-----------------------------------------------------------------------------
(* The snapshot history: SimpleUndo with the constructor's provider *)

UndoMaxLength == 20

RECURSIVE FreshIds(_, _)
FreshIds(used, n) ==
    IF n = 0 THEN << >>
    ELSE LET i == FreshId(used) IN << i >> \o FreshIds(used \cup { i }, n - 1)

\* The provider: JSON.parse(JSON.stringify(this.strokes)) builds a new array
\* of new objects with the same field values.  SnapshotId(w) is the new array.
SnapshotId(w) == FreshId(DOMAIN w.arr)

Snapshot(w) ==
    LET s == Scene(w)
        c == FreshIds(DOMAIN w.obj, Len(s))
        copies == [ id \in Range(c) |-> w.obj[s[IndexOf(c, id)]] ]
    IN  [w EXCEPT !.obj = w.obj @@ copies,
                  !.arr = w.arr @@ (SnapshotId(w) :> c)]

\* A save that never drops the oldest entries.
saveUnbounded(w) ==
    LET st == w.undoManager.stack
        pos == w.undoManager.position
        w1 == Snapshot(w)
    IN  [w1 EXCEPT !.undoManager =
            [stack |-> Append(SubSeq(st, 1, pos + 1), SnapshotId(w)),
             position |-> pos + 1]]

\* SimpleUndo.prototype.save: drop the oldest entries beyond maxLength, cut
\* what lies after the position, push the provider's item.  stack[1] is the
\* initial item (null); position counts from 0 as in the package.
save(w) ==
    LET st == w.undoManager.stack
        pos == w.undoManager.position
        st1 == IF pos >= UndoMaxLength /\ Len(st) > UndoMaxLength
               THEN SubSeq(st, Len(st) - UndoMaxLength + 1, Len(st))
               ELSE st
        pos1 == IF pos < Len(st1) - 1 THEN pos ELSE Len(st1) - 1
        w1 == Snapshot(w)
    IN  [w1 EXCEPT !.undoManager =
            [stack |-> Append(SubSeq(st1, 1, pos1 + 1), SnapshotId(w)),
             position |-> pos1 + 1]]

\* SimpleUndo.prototype.canUndo.
canUndo(w) == w.undoManager.position > 0

\* SimpleUndo.prototype.undo up to its callback: item = stack[--position].
undo(w) == [w EXCEPT !.undoManager.position = @ - 1]

\* The item the callback gets: the stored item itself, not a copy of it.
restoredStrokes(w) == w.undoManager.stack[w.undoManager.position + 1]

\* canvasManager.onUndo: undoManager.undo with the callback that makes the
\* item the live scene, this.strokes = restoredStrokes || [].
onUndo(w) ==
    IF canUndo(w)
    THEN LET w1 == undo(w)
             a == FreshId(DOMAIN w.arr)
         IN  IF restoredStrokes(w1) # Null
             THEN [w1 EXCEPT !.dm.strokes = restoredStrokes(w1)]
             ELSE [w1 EXCEPT !.dm.strokes = a, !.arr = w.arr @@ (a :> << >>)]
    ELSE w

-----------------------------------------------------------------------------
(* The dispatcher's synchronous part *)

SetScene(w, s) == [w EXCEPT !.arr[w.dm.strokes] = s]

RECURSIVE RemoveEach(_, _)
\* forEach(stroke => { index = strokes.indexOf(stroke); if (index > -1) splice })
RemoveEach(s, g) ==
    IF g = << >> THEN s
    ELSE LET i == IndexOf(s, Head(g))
         IN  RemoveEach(IF i > 0 THEN SpliceOut(s, i) ELSE s, Tail(g))

hasImages(w, g) == \E i \in 1..Len(g) : IsImage(w, g[i])

hasStrokes(w, g) == \E i \in 1..Len(g) : ~IsImage(w, g[i])

InkOf(w, g) == LET Ink(id) == ~IsImage(w, id) IN SelectSeq(g, Ink)

removeStrokesFromCanvas(w, g) == SetScene(w, RemoveEach(Scene(w), InkOf(w, g)))

\* processDrawing up to its first await (captureSelectedStrokes): a new
\* activation holding the captured group (trigger is only written to the log).
StartTask(w, g, trigger) ==
    LET d == FreshId(DOMAIN w.tasks)
    IN  [w EXCEPT !.tasks = w.tasks @@
            (d :> [pc |-> "capture", group |-> g,
                   kind |-> "none", img |-> Null, bytes |-> NoBytes,
                   raf |-> 0, viaMenu |-> FALSE, outcome |-> "pending"])]

\* An upload that removes the ink of every group at once, mixed or not.
EagerUpload(w, g, trigger) ==
    IF hasStrokes(w, g) THEN StartTask(removeStrokesFromCanvas(w, g), g, trigger)
    ELSE IF hasImages(w, g) THEN StartTask(w, g, trigger)
    ELSE [w EXCEPT !.toast = "No content to process"]

handleAIUpload(w, g, trigger) ==
    IF hasImages(w, g) /\ hasStrokes(w, g) THEN StartTask(w, g, trigger)
    ELSE IF hasStrokes(w, g) THEN StartTask(removeStrokesFromCanvas(w, g), g, trigger)
    ELSE IF hasImages(w, g) THEN StartTask(w, g, trigger)
    ELSE [w EXCEPT !.toast = "No content to process"]

-----------------------------------------------------------------------------
(* The long-press timers *)

LongTapProgressDelay == 2000
LongTapDelay == 3000

Without(f, k) == [ x \in (DOMAIN f) \ { k } |-> f[x] ]

\* A setTimeout entry.  Time is kept as the order in which timers come due:
\* a timer set later with a delay at least as long comes due later, so it
\* waits for the entries in after; two timers not so ordered (the 3000 ms
\* timer of one press, the 2000 ms timer of a later one) can fire in either
\* order.  touch, start and held record for which press the timer was set
\* and whether that touch has stayed down and within the movement tolerance
\* ever since.
Timer(kind, delay, finger, point, after) ==
    [kind |-> kind, delay |-> delay, touch |-> finger, start |-> point,
     held |-> TRUE, after |-> after]

NotLater(w, delay) == { u \in DOMAIN w.timers : w.timers[u].delay <= delay }

startLongTap(w, point, finger) ==
    LET used == DOMAIN w.timers
        tp == FreshId(used)
        ta == FreshId(used \cup { tp })
    IN  [w EXCEPT !.dm.longTapStartPoint = point,
                  !.dm.isLongTapping = TRUE,
                  !.dm.longTapProgressTimer = tp,
                  !.dm.longTapTimer = ta,
                  !.timers = w.timers
                      @@ (tp :> Timer("progress", LongTapProgressDelay, finger, point,
                                      NotLater(w, LongTapProgressDelay)))
                      @@ (ta :> Timer("ai", LongTapDelay, finger, point,
                                      NotLater(w, LongTapDelay) \cup { tp }))]

cancelLongTap(w) ==
    [w EXCEPT !.timers = Without(Without(w.timers, w.dm.longTapTimer),
                                 w.dm.longTapProgressTimer),
              !.dm.longTapTimer = Null,
              !.dm.longTapProgressTimer = Null,
              !.dm.isLongTapping = FALSE,
              !.dm.showLongTapProgress = FALSE]

triggerLongTapAI(w) ==
    handleAIUpload([w EXCEPT !.dm.isLongTapping = FALSE,
                             !.dm.showLongTapProgress = FALSE],
                   w.dm.draggedStrokes, "long-tap")

\* startProgressAnimation: animate() redraws and asks for the next frame
\* only while the ring is shown and the press is pending.  ring = 1: a frame
\* callback of such a loop is pending (loops started by several timers test
\* the same two flags).
startProgressAnimation(w) ==
    IF w.dm.showLongTapProgress /\ w.dm.isLongTapping
    THEN [w EXCEPT !.ring = 1]
    ELSE w

-----------------------------------------------------------------------------
(* Drawing *)

\* event.pressure || 0.5, in tenths: the default replaces every falsy
\* value, a missing pressure and a pressure of 0.
StoredPressure(pressure) ==
    IF pressure = NoPressure \/ pressure = 0 THEN 5 ELSE pressure

startDrawing(w, point, pressure) ==
    [w EXCEPT !.dm.isDrawing = TRUE,
              !.dm.currentStroke =
                  [type |-> "pen", points |-> << point >>,
                   pressures |-> << StoredPressure(pressure) >>,
                   tilts |-> << << 0, 0 >> >>, selected |-> FALSE]]

\* A pen move that records the point and its pressure without a tilt.
TiltlessDrawing(w, point, pressure) ==
    IF w.dm.currentStroke = NoStroke THEN w
    ELSE [w EXCEPT !.dm.currentStroke.points = Append(@, point),
                   !.dm.currentStroke.pressures = Append(@, StoredPressure(pressure))]

continueDrawing(w, point, pressure) ==
    IF w.dm.currentStroke = NoStroke THEN w
    ELSE [w EXCEPT !.dm.currentStroke.points = Append(@, point),
                   !.dm.currentStroke.pressures = Append(@, StoredPressure(pressure)),
                   !.dm.currentStroke.tilts = Append(@, << 0, 0 >>)]

finishDrawing(w) ==
    IF w.dm.currentStroke # NoStroke
    THEN LET w1 == Alloc(w, w.dm.currentStroke)
             w2 == SetScene(w1, Append(Scene(w1), NewId(w)))
         IN  [save([w2 EXCEPT !.dm.currentStroke = NoStroke]) EXCEPT !.dm.isDrawing = FALSE]
    ELSE [w EXCEPT !.dm.isDrawing = FALSE]

-----------------------------------------------------------------------------
(* Selection, dragging, lasso *)

RECURSIVE SetSelected(_, _, _)
SetSelected(o, ids, flag) ==
    IF ids = << >> THEN o
    ELSE SetSelected([o EXCEPT ![Head(ids)].selected = flag], Tail(ids), flag)

clearLassoSelection(w) ==
    [w EXCEPT !.obj = SetSelected(w.obj, w.dm.selectedStrokes, FALSE),
              !.dm.selectedStrokes = << >>]

clearAllSelections(w) ==
    [w EXCEPT !.obj = SetSelected(w.obj, Scene(w), FALSE),
              !.dm.selectedStrokes = << >>,
              !.dm.selectedStroke = Null,
              !.dm.draggedStrokes = << >>]

\* startDragging; with an empty drag group it asks findNearbyStrokes, which
\* dereferences the selected stroke: with none the handler ends there, with
\* a TypeError (threw), before showDropZone.
startDragging(w, point) ==
    LET w1 == [w EXCEPT !.dm.isDragging = TRUE, !.dm.dragOffset = point]
    IN  IF Len(w.dm.draggedStrokes) # 0 THEN w1
        ELSE IF w.dm.selectedStroke = Null THEN [w1 EXCEPT !.hist.threw = TRUE]
        ELSE [w1 EXCEPT !.dm.draggedStrokes =
                  findNearbyStrokes(w, w.dm.selectedStroke, NearbyTolerance)]

Shift(p, dx, dy) == << p[1] + dx, p[2] + dy >>

MoveEntity(e, dx, dy) ==
    IF e.type = "image-object"
    THEN [e EXCEPT !.position = Shift(@, dx, dy)]
    ELSE [e EXCEPT !.points = [ j \in 1..Len(@) |-> Shift(@[j], dx, dy) ]]

RECURSIVE MoveEach(_, _, _, _)
MoveEach(o, ids, dx, dy) ==
    IF ids = << >> THEN o
    ELSE MoveEach([o EXCEPT ![Head(ids)] = MoveEntity(@, dx, dy)], Tail(ids), dx, dy)

checkDropZoneHover(w, point) == [w EXCEPT !.dm.isOverDropZone = OverCorner(point)]

continueDragging(w, point) ==
    IF w.dm.selectedStroke = Null THEN w
    ELSE LET dx == point[1] - w.dm.dragOffset[1]
             dy == point[2] - w.dm.dragOffset[2]
             w1 == [w EXCEPT !.obj = MoveEach(w.obj, w.dm.draggedStrokes, dx, dy)]
         IN  [checkDropZoneHover(w1, point) EXCEPT !.dm.dragOffset = point]

hideDropZone(w) == [w EXCEPT !.dm.isOverDropZone = FALSE]

handleDropZoneDrop(w) == handleAIUpload(w, w.dm.draggedStrokes, "drag-to-corner")

finishDragging(w) ==
    LET w0 == [w EXCEPT !.dm.isDragging = FALSE]
    IN  IF w0.dm.isOverDropZone THEN hideDropZone(handleDropZoneDrop(w0))
        ELSE LET w1 == hideDropZone(w0)
                 w2 == IF Len(w1.dm.draggedStrokes) > 1
                       THEN [w1 EXCEPT !.obj = SetSelected(w1.obj, w1.dm.draggedStrokes, TRUE),
                                       !.dm.selectedStrokes = w1.dm.draggedStrokes]
                       ELSE IF w1.dm.selectedStroke # Null
                       THEN [w1 EXCEPT !.obj[w1.dm.selectedStroke].selected = TRUE]
                       ELSE w1
             IN  [w2 EXCEPT !.dm.selectedStroke = Null,
                            !.dm.draggedStrokes = << >>,
                            !.dm.dragOffset = << 0, 0 >>]

startLassoSelection(w, point) ==
    [w EXCEPT !.dm.isLassoSelecting = TRUE,
              !.dm.lassoPoints = << point >>,
              !.dm.selectedStrokes = << >>]

continueLassoSelection(w, point) ==
    IF w.dm.isLassoSelecting THEN [w EXCEPT !.dm.lassoPoints = Append(@, point)] ELSE w


\* isPointInPolygon: even-odd ray casting, edge from vertex j = i - 1 (the
\* last vertex for the first) to vertex i.  The comparison
\* px < (xj - xi) * (py - yi) / (yj - yi) + xi is multiplied by yj - yi.
EdgeCrossed(point, pi, pj) ==
    /\ (pi[2] > point[2]) # (pj[2] > point[2])
    /\ LET d == pj[2] - pi[2]
           lhs == (point[1] - pi[1]) * d
           rhs == (pj[1] - pi[1]) * (point[2] - pi[2])
       IN  IF d > 0 THEN lhs < rhs ELSE lhs > rhs

\* Ray casting over the path as drawn, without the edge that closes it.
OpenPath(point, polygon) ==
    LET crossed == { i \in 2..Len(polygon) :
                       EdgeCrossed(point, polygon[i], polygon[i - 1]) }
    IN  Cardinality(crossed) % 2 = 1

isPointInPolygon(point, polygon) ==
    LET n == Len(polygon)
        Prev(i) == IF i = 1 THEN n ELSE i - 1
        crossed == { i \in 1..n : EdgeCrossed(point, polygon[i], polygon[Prev(i)]) }
    IN  Cardinality(crossed) % 2 = 1

findStrokesInLasso(w, lassoPoints) ==
    LET Inside(id) ==
            LET e == w.obj[id]
            IN  IF e.type = "image-object"
                THEN isPointInPolygon(e.position, lassoPoints)
                ELSE \E j \in 1..Len(e.points) : isPointInPolygon(e.points[j], lassoPoints)
    IN  SelectSeq(Scene(w), Inside)

finishLassoSelection(w) ==
    LET w0 == [w EXCEPT !.dm.isLassoSelecting = FALSE]
        w1 == IF Len(w0.dm.lassoPoints) > 2
              THEN LET sel == findStrokesInLasso(w0, w0.dm.lassoPoints)
                   IN  [w0 EXCEPT !.dm.selectedStrokes = sel,
                                  !.obj = SetSelected(w0.obj, sel, TRUE)]
              ELSE w0
    IN  [w1 EXCEPT !.dm.lassoPoints = << >>]

-----------------------------------------------------------------------------
(* Pinch scaling *)

MinSize == 50
MaxSize == 1000

RECURSIVE SqrtIn(_, _, _)
\* The whole part of the square root of n, searched between lo and hi.
SqrtIn(lo, hi, n) ==
    IF lo >= hi THEN lo
    ELSE LET mid == (lo + hi + 1) \div 2
         IN  IF mid * mid <= n THEN SqrtIn(mid, hi, n) ELSE SqrtIn(lo, mid - 1, n)

\* The distance between two touch points, in whole units (exact for the
\* axis-aligned touch pairs of the event positions).
Dist(a, b) ==
    IF a[2] = b[2] THEN (IF a[1] >= b[1] THEN a[1] - b[1] ELSE b[1] - a[1])
    ELSE SqrtIn(0, Dist2(a, b), Dist2(a, b))

\* The size as computed, with no bound applied.
Unclamped(x) == x

Clamp(x) == IF x < MinSize THEN MinSize ELSE IF x > MaxSize THEN MaxSize ELSE x

PinchCentre(a, b) == << (a[1] + b[1]) \div 2, (a[2] + b[2]) \div 2 >>

handleScaleStart(w, a, b) ==
    LET target == findStrokeAtPoint(w, PinchCentre(a, b))
    IN  IF target # Null /\ (IsImage(w, target) \/ w.obj[target].selected)
        THEN LET w1 == [w EXCEPT !.dm.isScaling = TRUE,
                                 !.dm.scaleStartDistance = Dist(a, b),
                                 !.dm.scaleTarget = target]
             IN  IF IsImage(w, target)
                 THEN [w1 EXCEPT !.dm.scaleStartWidth = w.obj[target].width,
                                 !.dm.scaleStartHeight = w.obj[target].height]
                 ELSE w1
        ELSE w

\* scaleSelectedStrokes with the factor num / den: every selected entity is
\* scaled about the mean of the selected points, c + (p - c) * factor, in
\* whole units.
scaleSelectedStrokes(w, num, den) ==
    LET s == Scene(w)
        sel == { i \in 1..Len(s) : w.obj[s[i]].selected }
        PtsOf(e) == IF e.type = "image-object" THEN << e.position >> ELSE e.points
        Cnt(i) == Len(PtsOf(w.obj[s[i]]))
        RECURSIVE SumOver(_, _)
        SumOver(is, k) ==
            IF is = {} THEN 0
            ELSE LET i == Min(is)
                     ps == PtsOf(w.obj[s[i]])
                     RECURSIVE SumPts(_)
                     SumPts(j) == IF j = 0 THEN 0 ELSE ps[j][k] + SumPts(j - 1)
                 IN  SumPts(Len(ps)) + SumOver(is \ { i }, k)
        RECURSIVE CountOver(_)
        CountOver(is) == IF is = {} THEN 0
                         ELSE Cnt(Min(is)) + CountOver(is \ { Min(is) })
        count == CountOver(sel)
        Scaled(x, k) ==
            (SumOver(sel, k) * den + (x * count - SumOver(sel, k)) * num) \div (count * den)
        ScaleEntity(e) ==
            IF ~e.selected THEN e
            ELSE IF e.type = "image-object"
            THEN [e EXCEPT !.width = Clamp((@ * num) \div den),
                           !.height = Clamp((@ * num) \div den)]
            ELSE [e EXCEPT !.points =
                      [ j \in 1..Len(@) |-> << Scaled(@[j][1], 1), Scaled(@[j][2], 2) >> ]]
    IN  IF count = 0 THEN w
        ELSE [w EXCEPT !.obj = [ id \in DOMAIN w.obj |->
                  IF id \in { s[i] : i \in sel } THEN ScaleEntity(w.obj[id]) ELSE w.obj[id] ]]

handleScaleMove(w, a, b) ==
    IF ~w.dm.isScaling THEN w
    ELSE LET cur == Dist(a, b)
             start == w.dm.scaleStartDistance
             t == w.dm.scaleTarget
         IN  IF t = Null THEN w
             ELSE IF IsImage(w, t)
             THEN [w EXCEPT !.obj[t].width = Clamp((w.dm.scaleStartWidth * cur) \div start),
                            !.obj[t].height = Clamp((w.dm.scaleStartHeight * cur) \div start)]
             ELSE IF w.obj[t].selected
             THEN scaleSelectedStrokes(w, cur, start)
             ELSE w

handleScaleEnd(w) ==
    IF w.dm.isScaling
    THEN save([w EXCEPT !.dm.isScaling = FALSE, !.dm.scaleTarget = Null])
    ELSE w

-----------------------------------------------------------------------------
(* The pointer handlers *)

handlePointerDown(w, type, point, pressure, finger) ==
    IF type = "pen" THEN startDrawing(w, point, pressure)
    ELSE IF type = "touch"
    THEN LET hit == findStrokeAtPoint(w, point)
             w1 == [w EXCEPT !.dm.selectedStroke = hit]
         IN  IF hit # Null
             THEN IF hit \in Range(w1.dm.selectedStrokes)
                  THEN startLongTap([w1 EXCEPT !.dm.draggedStrokes = w1.dm.selectedStrokes],
                                    point, finger)
                  ELSE LET w2 == clearLassoSelection(w1)
                       IN  startLongTap([w2 EXCEPT !.obj[hit].selected = TRUE,
                                                   !.dm.draggedStrokes = << hit >>],
                                        point, finger)
             ELSE startLassoSelection(clearAllSelections(w1), point)
    ELSE w

handlePointerMove(w, type, point, pressure) ==
    IF w.dm.isDrawing /\ type = "pen" THEN continueDrawing(w, point, pressure)
    ELSE IF w.dm.isLongTapping /\ type = "touch"
    THEN IF Dist2(point, w.dm.longTapStartPoint) > Sq(MoveTolerance)
         THEN startDragging(cancelLongTap(w), point)
         ELSE w
    ELSE IF w.dm.isDragging /\ type = "touch" /\ w.dm.selectedStroke # Null
    THEN continueDragging(w, point)
    ELSE IF w.dm.isLassoSelecting /\ type = "touch"
    THEN continueLassoSelection(w, point)
    ELSE w

handlePointerUp(w) ==
    IF w.dm.isLongTapping THEN startDragging(cancelLongTap(w), w.dm.longTapStartPoint)
    ELSE IF w.dm.isDrawing THEN finishDrawing(w)
    ELSE IF w.dm.isDragging THEN finishDragging(w)
    ELSE IF w.dm.isLassoSelecting THEN finishLassoSelection(w)
    ELSE w

\* DrawingManager.clearCanvas (the clear button).
clearCanvas(w) ==
    LET a == FreshId(DOMAIN w.arr)
    IN  save([w EXCEPT !.arr = w.arr @@ (a :> << >>),
                       !.dm.strokes = a,
                       !.dm.currentStroke = NoStroke])

\* CanvasManager.handleTouchEnd: two touches ending in one event undo.
handleTouchEnd(w, changed) ==
    IF changed = 2 THEN [onUndo(w) EXCEPT !.toast = "Undo"] ELSE w

\* The touch listeners the DrawingManager registers for scaling.
onTouchStart(w) ==
    LET down == { f \in DOMAIN w.env.touch : w.env.touch[f] # NoPoint }
    IN  IF Cardinality(down) = 2
        THEN handleScaleStart(w, w.env.touch[Min(down)], w.env.touch[Max(down)])
        ELSE w

onTouchMove(w) ==
    LET down == { f \in DOMAIN w.env.touch : w.env.touch[f] # NoPoint }
    IN  IF Cardinality(down) = 2
        THEN handleScaleMove(w, w.env.touch[Min(down)], w.env.touch[Max(down)])
        ELSE w

onTouchEnd(w) ==
    LET down == { f \in DOMAIN w.env.touch : w.env.touch[f] # NoPoint }
    IN  IF w.dm.isScaling /\ Cardinality(down) < 2 THEN handleScaleEnd(w) ELSE w

-----------------------------------------------------------------------------
(* The dispatcher's asynchronous part: one task per handleAIUpload call *)

PlaceholderSize == 512
GeneratedMaxSize == 512

SetTask(w, d, field, value) == [w EXCEPT !.tasks[d][field] = value]

\* handleAIUpload after processDrawing has returned: clearSelections.
finishUpload(w, d, outcome) ==
    [clearAllSelections(w) EXCEPT !.tasks[d].pc = "done", !.tasks[d].outcome = outcome]

FirstImage(w, g) ==
    LET is == { i \in 1..Len(g) : IsImage(w, g[i]) }
    IN  IF is = {} THEN Null ELSE g[Min(is)]

\* generateNewImage up to its await: the ink of the manager's drag group is
\* removed, the placeholder appended, the redraw loop started.
generateNewImage(w, d) ==
    LET originalStrokes == InkOf(w, w.dm.draggedStrokes)
        w1 == SetScene(w, RemoveEach(Scene(w), originalStrokes))
        imageObj == [type |-> "image-object",
                     position |-> << CanvasWidth \div 2, CanvasHeight \div 2 >>,
                     width |-> PlaceholderSize, height |-> PlaceholderSize,
                     imageData |-> NoBytes, selected |-> FALSE,
                     isGenerating |-> TRUE, currentFrame |-> 0]
        w2 == Alloc(w1, imageObj)
        w3 == SetScene(w2, Append(Scene(w2), NewId(w1)))
    IN  [w3 EXCEPT !.tasks[d].pc = "generating",
                   !.tasks[d].kind = "generate",
                   !.tasks[d].img = NewId(w1),
                   !.tasks[d].raf = 1,
                   !.toast = "Generating image..."]

\* The shared start of updateExistingImage and selectEditOption.
startEdit(w, d, g, message) ==
    LET imageObj == FirstImage(w, g)
        w1 == SetScene(w, RemoveEach(Scene(w), InkOf(w, g)))
    IN  [w1 EXCEPT !.obj[imageObj].isGenerating = TRUE,
                   !.obj[imageObj].currentFrame = 0,
                   !.tasks[d].pc = "editing",
                   !.tasks[d].kind = "update",
                   !.tasks[d].img = imageObj,
                   !.tasks[d].raf = 1,
                   !.tasks[d].outcome = "pending",
                   !.toast = message]

updateExistingImage(w, d, g) ==
    IF FirstImage(w, g) = Null
    THEN finishUpload([w EXCEPT !.toast = "No image found to update"], d, "none")
    ELSE startEdit(w, d, g, "Updating image...")

RECURSIVE SpliceAll(_, _)
\* strokeIds.sort((a, b) => b - a).forEach(id => in range ? splice(id, 1))
SpliceAll(s, idxs) ==
    IF idxs = {} THEN s
    ELSE LET i == Max(idxs)
         IN  SpliceAll(IF i >= 1 /\ i <= Len(s) THEN SpliceOut(s, i) ELSE s, idxs \ { i })

executeCustomAction(w, g, deletes) ==
    IF deletes
    THEN LET s == Scene(w)
             idxs == { IndexOf(s, g[i]) : i \in 1..Len(g) }
         IN  [save(SetScene(w, SpliceAll(s, idxs))) EXCEPT !.toast = "Items deleted"]
    ELSE w

\* The completion callback without its assignment isGenerating = false.
onCompleteLeavingFlag(w, d, bytes) ==
    [w EXCEPT !.obj[w.tasks[d].img].imageData = bytes,
              !.tasks[d].pc = "decode",
              !.tasks[d].bytes = bytes,
              !.tasks[d].outcome = "succeeded"]

\* A completion callback that adds the finished image to the scene list,
\* where its placeholder already is.
onCompletePushing(w, d, bytes) ==
    LET w1 == SetScene(w, Append(Scene(w), w.tasks[d].img))
    IN  [w1 EXCEPT !.obj[w.tasks[d].img].imageData = bytes,
                   !.obj[w.tasks[d].img].isGenerating = FALSE,
                   !.tasks[d].pc = "decode",
                   !.tasks[d].bytes = bytes,
                   !.tasks[d].outcome = "succeeded"]

\* The callback given to generateImage / editImage: bytes in, flag off.
onComplete(w, d, bytes) ==
    [w EXCEPT !.obj[w.tasks[d].img].imageData = bytes,
              !.obj[w.tasks[d].img].isGenerating = FALSE,
              !.tasks[d].pc = "decode",
              !.tasks[d].bytes = bytes,
              !.tasks[d].outcome = "succeeded"]

\* An img.onload that fits every image by its width.
onImageLoadByWidth(w, d) ==
    LET t == w.tasks[d]
        w1 == [w EXCEPT !.obj[t.img].width = GeneratedMaxSize,
                        !.obj[t.img].height = (GeneratedMaxSize * t.bytes[2]) \div t.bytes[1]]
    IN  [save(w1) EXCEPT !.tasks[d].pc = "done",
                         !.toast = IF t.kind = "generate" THEN "Image generated!"
                                                          ELSE "Image updated!"]

\* img.onload: the size from the decoded aspect ratio, then the snapshot.
onImageLoad(w, d) ==
    LET t == w.tasks[d]
        iw == t.bytes[1]
        ih == t.bytes[2]
        w1 == IF iw > ih
              THEN [w EXCEPT !.obj[t.img].width = GeneratedMaxSize,
                             !.obj[t.img].height = (GeneratedMaxSize * ih) \div iw]
              ELSE [w EXCEPT !.obj[t.img].height = GeneratedMaxSize,
                             !.obj[t.img].width = (GeneratedMaxSize * iw) \div ih]
    IN  [save(w1) EXCEPT !.tasks[d].pc = "done",
                         !.toast = IF t.kind = "generate" THEN "Image generated!"
                                                          ELSE "Image updated!"]

\* The catch block of generateNewImage.
generateFailed(w, d) ==
    LET i == IndexOf(Scene(w), w.tasks[d].img)
        w1 == IF i > 0 THEN SetScene(w, SpliceOut(Scene(w), i)) ELSE w
    IN  [w1 EXCEPT !.toast = "Image generation failed"]

\* The catch block of an edit without its assignment isGenerating = false.
editFailedLeavingFlag(w, d) == [w EXCEPT !.toast = "Image update failed"]

\* The catch block of updateExistingImage and selectEditOption.
editFailed(w, d) ==
    [w EXCEPT !.obj[w.tasks[d].img].isGenerating = FALSE,
              !.toast = "Image update failed"]

\* animateGeneration, run by a frame callback: while the flag is set it
\* redraws and asks for the next frame.  raf is the pending frame request:
\* 0 none, 1 made while the external call was in flight, 2 made after the
\* call had completed.
animateGeneration(w, d) ==
    IF w.obj[w.tasks[d].img].isGenerating
    THEN [w EXCEPT !.tasks[d].raf = IF w.tasks[d].outcome = "pending" THEN 1 ELSE 2]
    ELSE [w EXCEPT !.tasks[d].raf = 0]

-----------------------------------------------------------------------------
(* The canvas actions (CanvasActions, src/actions.js) *)

\* An array left in the order it has.
Unsorted(ids) == ids

RECURSIVE SortDescending(_)
\* Array.prototype.sort((a, b) => b - a).
SortDescending(ids) ==
    IF ids = << >> THEN << >>
    ELSE LET i == IndexOf(ids, Max(Range(ids)))
         IN  << ids[i] >> \o SortDescending(SpliceOut(ids, i))

RECURSIVE SpliceEach(_, _)
\* forEach(id => { if (id >= 0 && id < strokes.length) strokes.splice(id, 1) }),
\* the ids counting from 0 as in the code.
SpliceEach(s, ids) ==
    IF ids = << >> THEN s
    ELSE LET id == Head(ids)
         IN  SpliceEach(IF id >= 0 /\ id < Len(s) THEN SpliceOut(s, id + 1) ELSE s,
                        Tail(ids))

\* CanvasActions.delete.
delete(w, strokeIds) ==
    save(SetScene(w, SpliceEach(Scene(w), SortDescending(strokeIds))))

\* strokeIds.filter(in range).map(id => strokes[id]).filter(stroke &&
\* stroke.points): the ink strokes an action works on.
StrokesOf(w, strokeIds) ==
    LET s == Scene(w)
        Valid(id) == id >= 0 /\ id < Len(s) /\ "points" \in DOMAIN w.obj[s[id + 1]]
        valid == SelectSeq(strokeIds, Valid)
    IN  [ k \in 1..Len(valid) |-> s[valid[k] + 1] ]

\* The smallest and the largest coordinate k over all points of the strokes.
Extent(w, strokes, k) ==
    LET vs == UNION { { w.obj[id].points[j][k] : j \in 1..Len(w.obj[id].points) }
                      : id \in Range(strokes) }
    IN  << Min(vs), Max(vs) >>

\* The points of the strokes.
PointsIn(o, strokes) ==
    UNION { Range(o[strokes[i]].points) : i \in 1..Len(strokes) }

\* The points a mapping is defined on: any pair of coordinates.
AnyPoint == Int \X Int

RECURSIVE MapPoints(_, _, _)
\* strokes.forEach(stroke => { stroke.points = stroke.points.map(...) }),
\* with the mapping as a function of the point: one entry of the list after
\* the other, a stroke once for every time the list holds it.
MapPoints(o, strokes, mapping) ==
    IF strokes = << >> THEN o
    ELSE MapPoints([o EXCEPT ![Head(strokes)].points =
                                 [ j \in 1..Len(@) |-> mapping[@[j]] ]],
                   Tail(strokes), mapping)

\* A reflection about the left edge of the strokes instead of their middle.
reflectAboutEdge(w, strokeIds) ==
    LET strokesToReflect == StrokesOf(w, strokeIds)
        ex == Extent(w, strokesToReflect, 1)
        mirror == [ point \in AnyPoint |-> << ex[1] + ex[1] - point[1], point[2] >> ]
    IN  IF Len(strokesToReflect) = 0 THEN w
        ELSE save([w EXCEPT !.obj = MapPoints(w.obj, strokesToReflect, mirror)])

\* CanvasActions.reflect: x becomes centerX - (x - centerX), with centerX
\* the middle of the smallest and the largest x.
reflect(w, strokeIds) ==
    LET strokesToReflect == StrokesOf(w, strokeIds)
        ex == Extent(w, strokesToReflect, 1)
        mirror == [ point \in AnyPoint |-> << ex[1] + ex[2] - point[1], point[2] >> ]
    IN  IF Len(strokesToReflect) = 0 THEN w
        ELSE save([w EXCEPT !.obj = MapPoints(w.obj, strokesToReflect, mirror)])

\* CanvasActions.enlarge: every point moves away from the centre by the
\* factor 1.5, center + (p - center) * 1.5 = (6 p - min - max) / 4, in whole
\* units.
enlarge(w, strokeIds) ==
    LET strokesToEnlarge == StrokesOf(w, strokeIds)
        ex == Extent(w, strokesToEnlarge, 1)
        ey == Extent(w, strokesToEnlarge, 2)
        grow == [ point \in AnyPoint |->
                    << (6 * point[1] - ex[1] - ex[2]) \div 4,
                       (6 * point[2] - ey[1] - ey[2]) \div 4 >> ]
    IN  IF Len(strokesToEnlarge) = 0 THEN w
        ELSE save([w EXCEPT !.obj = MapPoints(w.obj, strokesToEnlarge, grow)])

-----------------------------------------------------------------------------
(* The state machine *)

\* No finger holds a lasso selection.
NoGrab == [touch |-> 0, group |-> << >>]

\* No canvas action has been called.
NoCall == [op |-> "none", strokeIds |-> << >>, strokes |-> << >>]

\* The current world, and the step to a world.
World ==
    [dm |-> dm, obj |-> obj, arr |-> arr, undoManager |-> undoManager,
     timers |-> timers, tasks |-> tasks, menu |-> menu, env |-> env,
     ring |-> ring, toast |-> toast, hist |-> [hist EXCEPT !.threw = FALSE, !.call = NoCall]]

\* What the program can still reach: the live scene and the snapshots, the
\* manager's references and the closures of the activations that have a
\* continuation or a frame callback pending.  Anything else is garbage and
\* leaves the heap; a timer waits only for timers that are still pending.
Collected(w) ==
    LET live == { d \in DOMAIN w.tasks : w.tasks[d].pc # "done" \/ w.tasks[d].raf # 0 }
        arrs == { w.dm.strokes } \cup (Range(w.undoManager.stack) \ { Null })
        held == UNION { Range(w.arr[a]) : a \in arrs }
                \cup { w.dm.selectedStroke, w.dm.scaleTarget, w.dm.hoveredSmartObject }
                \cup Range(w.dm.draggedStrokes) \cup Range(w.dm.selectedStrokes)
                \cup UNION { Range(w.tasks[d].group) \cup { w.tasks[d].img } : d \in live }
    IN  [w EXCEPT !.tasks = [ d \in live |-> w.tasks[d] ],
                  !.timers = [ t \in DOMAIN w.timers |->
                      [w.timers[t] EXCEPT !.after = @ \cap DOMAIN w.timers] ],
                  !.arr = [ a \in arrs |-> w.arr[a] ],
                  !.obj = [ id \in held \ { Null } |-> w.obj[id] ]]

\* The bounds of the model on what a step may lead to.
Fits(w) ==
    /\ Len(w.undoManager.stack) <= MaxSnapshots + 1
    /\ DOMAIN w.timers \subseteq 1..MaxTimers
    /\ DOMAIN w.tasks \subseteq 1..MaxTasks
    /\ Len(w.dm.lassoPoints) <= MaxLasso
    /\ w.dm.currentStroke # NoStroke => Len(w.dm.currentStroke.points) <= MaxPoints
    /\ Len(Scene(w)) <= MaxStrokes

Step(w) ==
    /\ Fits(w)
    /\ LET c == Collected(w)
       IN  /\ dm' = c.dm /\ obj' = c.obj /\ arr' = c.arr
           /\ undoManager' = c.undoManager
           /\ timers' = c.timers /\ tasks' = c.tasks /\ menu' = c.menu
           /\ env' = c.env /\ ring' = c.ring /\ toast' = c.toast /\ hist' = c.hist

Init ==
    /\ dm = [strokes |-> 1, currentStroke |-> NoStroke,
             isDrawing |-> FALSE, isDragging |-> FALSE,
             dragOffset |-> << 0, 0 >>, selectedStroke |-> Null,
             draggedStrokes |-> << >>, isLassoSelecting |-> FALSE,
             lassoPoints |-> << >>, selectedStrokes |-> << >>,
             isOverDropZone |-> FALSE, isScaling |-> FALSE,
             scaleStartDistance |-> 0, scaleStartWidth |-> 0,
             scaleStartHeight |-> 0, scaleTarget |-> Null,
             longTapTimer |-> Null, longTapProgressTimer |-> Null,
             longTapStartPoint |-> NoPoint, isLongTapping |-> FALSE,
             showLongTapProgress |-> FALSE, hoveredSmartObject |-> Null]
    /\ obj = << >>
    /\ arr = (1 :> << >>)
    /\ undoManager = [stack |-> << Null >>, position |-> 0]
    /\ timers = << >>
    /\ tasks = << >>
    /\ menu = Null
    /\ env = [pen |-> FALSE, touch |-> [ f \in 1..MaxTouches |-> NoPoint ]]
    /\ ring = 0
    /\ toast = ""
    /\ hist = [threw |-> FALSE, grab |-> NoGrab, call |-> NoCall]

TouchesDown(w) == { f \in DOMAIN w.env.touch : w.env.touch[f] # NoPoint }

\* A timer whose press is over: its touch has ended or has left the
\* movement tolerance.
Released(timer) == [timer EXCEPT !.held = FALSE, !.touch = 0, !.start = NoPoint]

\* A touch that moves or ends: the timers set for it record whether it is
\* still the press they were set for.
Moved(w, f, point) ==
    [w EXCEPT !.env.touch[f] = point,
              !.timers = [ t \in DOMAIN w.timers |->
                  IF w.timers[t].touch = f
                     /\ Dist2(point, w.timers[t].start) > Sq(MoveTolerance)
                  THEN Released(w.timers[t])
                  ELSE w.timers[t] ]]

Lifted(w, f) ==
    [w EXCEPT !.env.touch[f] = NoPoint,
              !.hist.grab = IF @.touch = f THEN NoGrab ELSE @,
              !.timers = [ t \in DOMAIN w.timers |->
                  IF w.timers[t].touch = f THEN Released(w.timers[t])
                  ELSE w.timers[t] ]]

\* A touch that lands at point: when the entity under it belongs to the
\* lasso selection, the finger has taken hold of that selection.
Landed(w, f, point) ==
    LET hit == findStrokeAtPoint(w, point)
    IN  [w EXCEPT !.env.touch[f] = point,
                  !.hist.grab = IF hit # Null /\ hit \in Range(w.dm.selectedStrokes)
                                THEN [touch |-> f, group |-> w.dm.selectedStrokes]
                                ELSE @]

(* Pen events *)

PenDownAt(p) ==
    /\ ~env.pen
    /\ Len(Scene(World)) < MaxStrokes
    /\ \E pr \in PenPressures :
          Step(handlePointerDown([World EXCEPT !.env.pen = TRUE], "pen", p, pr, 0))

PenDown == \E p \in PenPts : PenDownAt(p)

PenMoveTo(p) ==
    /\ env.pen
    /\ \E pr \in PenPressures : Step(handlePointerMove(World, "pen", p, pr))

PenMove == \E p \in PenPts : PenMoveTo(p)

\* pointerup and pointercancel of the pen: the same listener.
PenUp ==
    /\ env.pen
    /\ Step(handlePointerUp([World EXCEPT !.env.pen = FALSE]))

(* Touch events: the pointer event, then the touch event of the same contact *)

TouchDownAt(p) ==
    /\ TouchesDown(World) # DOMAIN env.touch
    /\ \A f \in TouchesDown(World) : env.touch[f] # p
    /\ LET f == Min((DOMAIN env.touch) \ TouchesDown(World))
       IN  Step(onTouchStart(handlePointerDown(Landed(World, f, p), "touch", p, 0, f)))

TouchDown == \E p \in TouchPts : TouchDownAt(p)

\* pointermove of one touch (a move event may report the position again:
\* it also fires when the contact's pressure or size changes).
TouchMoveTo(f, p) ==
    /\ \A g \in TouchesDown(World) \ { f } : env.touch[g] # p
    /\ Step(onTouchMove(handlePointerMove(Moved(World, f, p), "touch", p, 0)))

TouchMove == \E f \in TouchesDown(World), p \in TouchPts : TouchMoveTo(f, p)

TouchUp ==
    \E f \in TouchesDown(World) :
        Step(onTouchEnd(handleTouchEnd(handlePointerUp(Lifted(World, f)), 1)))

\* Both touches lifted together: two pointerup events, one touchend with two
\* changed touches (the CanvasManager's listener was registered first).
TwoTouchUp ==
    /\ Cardinality(TouchesDown(World)) = 2
    /\ LET f == Min(TouchesDown(World))
           g == Max(TouchesDown(World))
           w0 == Lifted(Lifted(World, f), g)
       IN  Step(onTouchEnd(handleTouchEnd(handlePointerUp(handlePointerUp(w0)), 2)))

\* pointercancel of a touch: the pointer listener runs; the touch event is
\* touchcancel, which has no listener.
TouchCancel ==
    \E f \in TouchesDown(World) : Step(handlePointerUp(Lifted(World, f)))

ClearButton == Step(clearCanvas(World))

(* The long-press timers *)

\* The timer is due: every timer that comes due before it has fired or
\* has been cleared.
Due(t) == timers[t].after \cap DOMAIN timers = {}

\* A due timer leaves the timer queue and its callback runs.  A handle whose
\* timer has fired is as good as null: clearTimeout does nothing with it.
Fired(w, t) ==
    [w EXCEPT !.timers = Without(w.timers, t),
              !.dm.longTapTimer = IF @ = t THEN Null ELSE @,
              !.dm.longTapProgressTimer = IF @ = t THEN Null ELSE @]

ProgressTimerOf(t) ==
    /\ timers[t].kind = "progress" /\ Due(t)
    /\ Step(startProgressAnimation(
           [Fired(World, t) EXCEPT !.dm.showLongTapProgress = TRUE]))

ProgressTimer == \E t \in DOMAIN timers : ProgressTimerOf(t)

LongTapTimerOf(t) ==
    /\ timers[t].kind = "ai" /\ Due(t)
    /\ Step(triggerLongTapAI(Fired(World, t)))

LongTapTimer == \E t \in DOMAIN timers : LongTapTimerOf(t)

\* A frame callback of the progress ring that does not ask for another.
RingFrame ==
    /\ ring = 1
    /\ ~(dm.showLongTapProgress /\ dm.isLongTapping)
    /\ Step([World EXCEPT !.ring = 0])


(* The steps of a dispatched task: each runs when its await resolves *)

\* captureSelectedStrokes resolved: the debug toast, then the 2 s pause.
CaptureDone ==
    \E d \in DOMAIN tasks :
        /\ tasks[d].pc = "capture"
        /\ Step([World EXCEPT !.tasks[d].pc = "pause", !.toast = "Analyzing..."])

\* The pause is over: the options request for a mixed group, the
\* classification request otherwise.
PauseDone ==
    \E d \in DOMAIN tasks :
        /\ tasks[d].pc = "pause"
        /\ Step(SetTask(World, d, "pc",
                   IF hasImages(World, tasks[d].group) /\ hasStrokes(World, tasks[d].group)
                   THEN "options" ELSE "classify"))

ClassifiedGenerate ==
    \E d \in DOMAIN tasks :
        /\ tasks[d].pc = "classify"
        /\ Step(generateNewImage(World, d))

ClassifiedUpdate ==
    \E d \in DOMAIN tasks :
        /\ tasks[d].pc = "classify"
        /\ Step(updateExistingImage(World, d, tasks[d].group))

\* execute_action (with or without "delete" in its description), or an
\* action type the switch does not know.
ClassifiedExecute ==
    \E d \in DOMAIN tasks, deletes \in BOOLEAN :
        /\ tasks[d].pc = "classify"
        /\ Step(finishUpload(executeCustomAction(World, tasks[d].group, deletes), d, "none"))

\* analyzeAction threw: processDrawing's catch.
ClassifyFailed ==
    \E d \in DOMAIN tasks :
        /\ tasks[d].pc = "classify"
        /\ Step(finishUpload([World EXCEPT !.toast = "Processing failed"], d, "failed"))

\* generateEditOptions: the chips replace whatever chips were shown (the
\* activations whose chips they were can no longer be picked).
OptionsShown ==
    \E d \in DOMAIN tasks :
        /\ tasks[d].pc = "options"
        /\ LET w1 == finishUpload(World, d, "none")
           IN  Step([w1 EXCEPT !.menu = d,
                               !.tasks = [ x \in DOMAIN w1.tasks |->
                                   IF x = d THEN [w1.tasks[x] EXCEPT !.pc = "menu"]
                                   ELSE IF w1.tasks[x].pc = "menu"
                                   THEN [w1.tasks[x] EXCEPT !.pc = "done"]
                                   ELSE w1.tasks[x] ]])

OptionsFailed ==
    \E d \in DOMAIN tasks :
        /\ tasks[d].pc = "options"
        /\ Step(finishUpload([World EXCEPT !.toast = "Failed to generate options"],
                             d, "failed"))

\* A chip is clicked: selectEditOption.
PickOption ==
    /\ menu # Null
    /\ Step([startEdit([World EXCEPT !.menu = Null], menu, tasks[menu].group, "Applying...")
                EXCEPT !.tasks[menu].viaMenu = TRUE])

\* The dismiss button: hideEditOptions.
DismissOptions ==
    /\ menu # Null
    /\ Step([World EXCEPT !.menu = Null, !.tasks[menu].pc = "done"])

GenerateSucceeded ==
    \E d \in DOMAIN tasks, bytes \in DecodedSizes :
        /\ tasks[d].pc = "generating"
        /\ Step([clearAllSelections(onComplete(World, d, bytes)) EXCEPT !.tasks[d].pc = "decode"])

GenerateFailed ==
    \E d \in DOMAIN tasks :
        /\ tasks[d].pc = "generating"
        /\ Step(finishUpload(generateFailed(World, d), d, "failed"))

EditSucceeded ==
    \E d \in DOMAIN tasks, bytes \in DecodedSizes :
        /\ tasks[d].pc = "editing"
        /\ Step(IF tasks[d].viaMenu THEN onComplete(World, d, bytes)
                ELSE clearAllSelections(onComplete(World, d, bytes)))

EditFailed ==
    \E d \in DOMAIN tasks :
        /\ tasks[d].pc = "editing"
        /\ Step(IF tasks[d].viaMenu
                THEN [editFailed(World, d) EXCEPT !.tasks[d].pc = "done",
                                                  !.tasks[d].outcome = "failed"]
                ELSE finishUpload(editFailed(World, d), d, "failed"))

ImageLoaded ==
    \E d \in DOMAIN tasks :
        /\ tasks[d].pc = "decode"
        /\ Step(onImageLoad(World, d))

Frame ==
    \E d \in DOMAIN tasks :
        /\ tasks[d].raf # 0
        /\ Step(animateGeneration(World, d))

Next ==
    \/ PenDown \/ PenMove \/ PenUp
    \/ TouchDown \/ TouchMove \/ TouchUp \/ TwoTouchUp \/ TouchCancel
    \/ ClearButton
    \/ ProgressTimer \/ LongTapTimer \/ RingFrame
    \/ CaptureDone \/ PauseDone
    \/ ClassifiedGenerate \/ ClassifiedUpdate \/ ClassifiedExecute \/ ClassifyFailed
    \/ OptionsShown \/ OptionsFailed \/ PickOption \/ DismissOptions
    \/ GenerateSucceeded \/ GenerateFailed \/ EditSucceeded \/ EditFailed
    \/ ImageLoaded \/ Frame

Spec == Init /\ [][Next]_vars

-----------------------------------------------------------------------------
(* Spec is the image build as a whole.  The properties below are           *)
(* model-checked on scenarios: the handlers of Spec, driven by the devices, *)
(* the positions and the replies a property is about (a scenario may place  *)
(* its touches at points of its own), together with the entry points of    *)
(* the smart-object build where a property is about them.                  *)

(* The input router alone: the pen and one finger *)

\* The pen touches the glass while no finger is on it.
StylusDown == TouchesDown(World) = {} /\ PenDown

\* A finger touches the glass while nothing else is on it.
OneFingerDown == ~env.pen /\ TouchesDown(World) = {} /\ TouchDown

RouterNext ==
    \/ StylusDown \/ PenUp
    \/ OneFingerDown \/ TouchMove \/ TouchUp \/ TouchCancel

RouterSpec == Init /\ [][RouterNext]_vars

GestureFlags(w) ==
    << w.dm.isDrawing, w.dm.isDragging, w.dm.isLassoSelecting,
       w.dm.isLongTapping, w.dm.isScaling >>

ActiveGestures(w) == { i \in 1..5 : GestureFlags(w)[i] }

\* C1: in every reachable state at most one of the gesture flags isDrawing,
\* isDragging, isLassoSelecting, isLongTapping and isScaling is true.
C1_AtMostOneGesture == Cardinality(ActiveGestures(World)) <= 1

\* C2: once every pointer that went down has been lifted or cancelled, the
\* router is idle: none of the five gesture flags is true (a touch released
\* while its long press was pending has ended as a finished tap-drag).
C2_IdleWhenAllUp ==
    (~env.pen /\ TouchesDown(World) = {}) => ActiveGestures(World) = {}

-----------------------------------------------------------------------------
(* The long press: one stroke, two fingers, the timers *)

\* Where a finger lands on the stroke the pen has drawn.
InkPts == { <<600, 0>>, <<610, 0>> }

\* The pen draws the first stroke.
FirstStylusDown == Len(undoManager.stack) = 1 /\ StylusDown

\* A finger lands on the ink, the pen being up.
PressDown == ~env.pen /\ \E p \in InkPts : TouchDownAt(p)

TimerNext ==
    \/ FirstStylusDown \/ PenUp
    \/ PressDown \/ TouchUp
    \/ ProgressTimer \/ LongTapTimer \/ RingFrame

TimerSpec == Init /\ [][TimerNext]_vars

\* C3: a timer of the long press runs its callback (the dispatcher at
\* 3000 ms, the progress ring at 2000 ms) only for a touch that has stayed
\* down and within the movement tolerance since the pointer-down that set the
\* timer; no timer set for a press that has since been cancelled fires.
C3_TimersFireOnlyForHeldPress ==
    [][\A t \in DOMAIN timers :
          (LongTapTimerOf(t) \/ ProgressTimerOf(t)) => timers[t].held]_vars

-----------------------------------------------------------------------------
(* The dispatcher: strokes dragged to the corner, the canvas cleared, and
   the steps of the dispatched action *)

\* A finger lands where the pen draws, nothing else being on the glass.
TapDown == ~env.pen /\ TouchesDown(World) = {} /\ TouchDownAt(<< 600, 0 >>)

\* The finger moves to (or rests in) the top-right corner.
DragToCorner == \E f \in TouchesDown(World) : TouchMoveTo(f, << CanvasWidth, 0 >>)

AsyncNext ==
    \/ StylusDown \/ PenUp
    \/ TapDown \/ DragToCorner \/ TouchUp
    \/ ClearButton
    \/ CaptureDone \/ PauseDone
    \/ ClassifiedGenerate \/ ClassifiedUpdate \/ ClassifiedExecute \/ ClassifyFailed
    \/ GenerateSucceeded \/ GenerateFailed \/ EditSucceeded \/ EditFailed
    \/ ImageLoaded \/ Frame

AsyncSpec == Init /\ [][AsyncNext]_vars

\* The step in which the classification of task d arrives as "generate".
GenerateStep(d) ==
    /\ tasks[d].pc = "classify"
    /\ d \in DOMAIN tasks'
    /\ tasks'[d].pc = "generating"

\* The scene list after the step.
SceneAfter == arr'[dm'.strokes]

\* C4: a Generate action removes from the scene only ink strokes of the
\* group captured when the action was dispatched.
C4_GenerateRemovesOnlyCapturedInk ==
    [][\A d \in DOMAIN tasks :
          GenerateStep(d) =>
              \A id \in Range(Scene(World)) \ Range(SceneAfter) :
                  id \in Range(tasks[d].group)]_vars

\* The step in which the external call of task d, or the decoding of its
\* result, completes.
CompletionStep(d) ==
    /\ tasks[d].pc \in { "generating", "editing", "decode" }
    /\ d \in DOMAIN tasks' => tasks'[d].pc # tasks[d].pc

\* C5: a completion whose placeholder or target image is no longer in the
\* scene list changes neither the scene list nor the undo history.
C5_StaleCompletionChangesNothing ==
    [][\A d \in DOMAIN tasks :
          (CompletionStep(d) /\ tasks[d].img \notin Range(Scene(World))) =>
              /\ dm'.strokes = dm.strokes
              /\ SceneAfter = Scene(World)
              /\ undoManager' = undoManager]_vars

\* The step in which the generate call of task d succeeds.
SucceedStep(d) ==
    /\ tasks[d].pc = "generating"
    /\ d \in DOMAIN tasks'
    /\ tasks'[d].pc = "decode"

ImagesIn(o, s) == { id \in Range(s) : o[id].type = "image-object" }

\* The step has appended one new entity, the task's placeholder: an image
\* object that is generating and has no bytes.
PlaceholderAppended(d) ==
    LET img == tasks'[d].img
        s == SceneAfter
    IN  /\ Range(s) \ Range(Scene(World)) = { img }
        /\ Len(s) > 0 /\ s[Len(s)] = img
        /\ Cardinality({ i \in 1..Len(s) : s[i] = img }) = 1
        /\ ImagesIn(obj', s) = ImagesIn(obj, Scene(World)) \cup { img }
        /\ obj'[img].isGenerating
        /\ obj'[img].imageData = NoBytes

\* After the step the scene holds the task's placeholder, finished, and no
\* image object it did not hold before.
PlaceholderFinished(d) ==
    LET img == tasks[d].img
    IN  /\ img \in Range(SceneAfter)
        /\ ~obj'[img].isGenerating
        /\ obj'[img].imageData # NoBytes
        /\ ImagesIn(obj', SceneAfter) = ImagesIn(obj, Scene(World))

\* C6 as stated: a Generate dispatch appends exactly one image object with
\* isGenerating = true and no bytes; once its call succeeds the scene holds
\* exactly that object, with isGenerating = false and bytes.
C6_PlaceholderInSceneOnSuccess ==
    [][\A d \in DOMAIN tasks :
          /\ GenerateStep(d) => PlaceholderAppended(d)
          /\ SucceedStep(d) => PlaceholderFinished(d)]_vars

\* C6 amended: a Generate dispatch appends exactly one image object with
\* isGenerating = true and no bytes; when its call succeeds and the
\* placeholder is still in the scene, the scene holds exactly that object,
\* with isGenerating = false and bytes, and no further image object.
C6_PlaceholderLifecycle ==
    [][\A d \in DOMAIN tasks :
          /\ GenerateStep(d) => PlaceholderAppended(d)
          /\ (SucceedStep(d) /\ tasks[d].img \in Range(Scene(World)))
                => PlaceholderFinished(d)]_vars

\* A generate call has succeeded and its placeholder is in the scene, finished.
C6_Witness ==
    \E d \in DOMAIN tasks :
        /\ tasks[d].kind = "generate" /\ tasks[d].outcome = "succeeded"
        /\ tasks[d].img \in Range(Scene(World))
        /\ ~obj[tasks[d].img].isGenerating
        /\ obj[tasks[d].img].imageData # NoBytes

\* The steps in which the external call of task d fails.
GenerateFailStep(d) ==
    /\ tasks[d].pc = "generating"
    /\ d \in DOMAIN tasks'
    /\ tasks'[d].outcome = "failed"

EditFailStep(d) ==
    /\ tasks[d].pc = "editing"
    /\ d \in DOMAIN tasks'
    /\ tasks'[d].outcome = "failed"

\* C7: when the generate call fails, the scene afterwards does not hold the
\* dispatch's placeholder and a notification is shown; when an edit call
\* fails, the target has isGenerating = false and the bytes, width and height
\* it had; in neither case does an exception escape.
C7_FailureHandling ==
    [][\A d \in DOMAIN tasks :
          /\ GenerateFailStep(d) =>
                /\ tasks[d].img \notin Range(SceneAfter)
                /\ toast' = "Image generation failed"
                /\ ~hist'.threw
          /\ EditFailStep(d) =>
                LET img == tasks[d].img
                IN  /\ ~obj'[img].isGenerating
                    /\ obj'[img].imageData = obj[img].imageData
                    /\ obj'[img].width = obj[img].width
                    /\ obj'[img].height = obj[img].height
                    /\ toast' = "Image update failed"
                    /\ ~hist'.threw]_vars

\* An edit call has failed on an image that is in the scene.
C7_Witness ==
    \E d \in DOMAIN tasks :
        /\ tasks[d].kind = "update" /\ tasks[d].outcome = "failed"
        /\ tasks[d].img \in Range(Scene(World))
        /\ toast = "Image update failed"

\* C8: once the external call of an action has completed, no frame of its
\* redraw loop is requested for an image object that is not in the scene.
C8_NoLoopForRemovedObject ==
    \A d \in DOMAIN tasks :
        tasks[d].raf = 2 => tasks[d].img \in Range(Scene(World))

\* The size img.onload gives an image with the decoded size bytes.
FinalSize(bytes) ==
    IF bytes[1] > bytes[2]
    THEN << GeneratedMaxSize, (GeneratedMaxSize * bytes[2]) \div bytes[1] >>
    ELSE << (GeneratedMaxSize * bytes[1]) \div bytes[2], GeneratedMaxSize >>

\* C9: every snapshot of the undo history that holds an image object with
\* bytes and isGenerating = false records the width and height computed
\* from the decoded aspect ratio.
C9_SnapshotsRecordFinalSize ==
    \A i \in 1..Len(undoManager.stack) :
        undoManager.stack[i] # Null =>
            \A id \in Range(arr[undoManager.stack[i]]) :
                (/\ obj[id].type = "image-object"
                 /\ obj[id].imageData # NoBytes
                 /\ ~obj[id].isGenerating)
                    => << obj[id].width, obj[id].height >> = FinalSize(obj[id].imageData)

-----------------------------------------------------------------------------
(* The snapshot history: strokes, taps and the two-finger undo *)

\* Where the fingers of the undo gesture land: on the ink and off it.
UndoPts == { << 600, 0 >>, << CanvasWidth, 0 >> }

\* A finger lands, the pen being up.
GestureDown == ~env.pen /\ \E p \in UndoPts : TouchDownAt(p)

UndoNext ==
    \/ StylusDown \/ PenUp
    \/ GestureDown \/ TouchUp \/ TwoTouchUp

UndoSpec == Init /\ [][UndoNext]_vars

\* The entities of the array a, by content.
Contents(o, r, a) == [ i \in 1..Len(r[a]) |-> o[r[a][i]] ]

\* C10: a snapshot stored in the undo history keeps the entities it was
\* taken with: no step that leaves it in the history alters its contents,
\* so restoring it yields the scene of the moment it was taken.
C10_StoredSnapshotsNeverChange ==
    [][\A i \in 1..Len(undoManager.stack) :
          (/\ undoManager.stack[i] # Null
           /\ i <= Len(undoManager'.stack)
           /\ undoManager'.stack[i] = undoManager.stack[i])
              => Contents(obj', arr', undoManager.stack[i])
                    = Contents(obj, arr, undoManager.stack[i])]_vars

-----------------------------------------------------------------------------
(* Selection: two sketched marks, the lasso, the drag of a selection *)

\* Where the pen sketches: two marks 40 units apart, further than the hit
\* tolerance and nearer than the proximity tolerance.
SketchPts == { << 300, 200 >>, << 340, 200 >> }

\* Where a finger lands: on the first mark, and on empty canvas.
LandPts == { << 300, 200 >>, << 250, 150 >> }

\* Where a finger moves to: the corners of the lasso paths.
PathPts == { << 400, 150 >>, << 320, 150 >>, << 320, 300 >> }

\* The pen sketches a mark, no finger being on the glass.
SketchDown == TouchesDown(World) = {} /\ \E p \in SketchPts : PenDownAt(p)

\* A finger lands while nothing else is on the glass.
FingerDown ==
    ~env.pen /\ TouchesDown(World) = {} /\ \E p \in LandPts : TouchDownAt(p)

PathMove == \E f \in TouchesDown(World), p \in PathPts : TouchMoveTo(f, p)

SelectNext ==
    \/ SketchDown \/ PenUp
    \/ FingerDown \/ PathMove \/ TouchUp

SelectSpec == Init /\ [][SelectNext]_vars

-----------------------------------------------------------------------------
(* The drag of a lasso selection, and a second finger landing meanwhile *)

\* The drag of the finger that holds the lasso selection is under way.
DragUnderWay(w) ==
    /\ w.hist.grab.touch \in TouchesDown(w)
    /\ w.dm.isDragging /\ ~w.dm.isLongTapping

\* A second finger lands on empty canvas while the first drags the selection.
SecondFingerDown ==
    /\ ~env.pen
    /\ DragUnderWay(World)
    /\ TouchesDown(World) = { hist.grab.touch }
    /\ TouchDownAt(<< 250, 150 >>)

DragNext ==
    \/ SketchDown \/ PenUp
    \/ FingerDown \/ SecondFingerDown \/ PathMove \/ TouchUp

DragSpec == Init /\ [][DragNext]_vars

\* The entity id is translated by << dx, dy >> in the step.
Translated(id, dx, dy) == obj'[id] = MoveEntity(obj[id], dx, dy)

\* Where an entity is: the centre of an image object, the first point of ink.
Anchor(e) == IF e.type = "image-object" THEN e.position ELSE e.points[1]

\* C11: while a finger drags a lasso selection of several entities, each of
\* its touch-moves translates every member by one and the same delta and
\* changes no entity outside the selection; when the finger is released
\* outside the corner zone every member has selected = true, selectedStrokes
\* is the selection, and no other entity's selected flag has changed.
C11_DragGroupCoherence ==
    [][\A f \in TouchesDown(World) :
          (DragUnderWay(World) /\ hist.grab.touch = f /\ Len(hist.grab.group) > 1) =>
              LET group == hist.grab.group
                  others == Range(Scene(World)) \ Range(group)
                  first == group[1]
                  dx == Anchor(obj'[first])[1] - Anchor(obj[first])[1]
                  dy == Anchor(obj'[first])[2] - Anchor(obj[first])[2]
              IN  /\ (f \in TouchesDown(World') /\ env'.touch[f] # env.touch[f]) =>
                        /\ \A id \in Range(group) : Translated(id, dx, dy)
                        /\ \A id \in others : obj'[id] = obj[id]
                  /\ (f \notin TouchesDown(World') /\ ~OverCorner(env.touch[f])) =>
                        /\ \A id \in Range(group) : obj'[id].selected
                        /\ dm'.selectedStrokes = group
                        /\ \A id \in others : obj'[id].selected = obj[id].selected]_vars

\* The step in which the pending long press of a touch turns into a drag.
DragStartStep == dm.isLongTapping /\ ~dm'.isLongTapping /\ dm'.isDragging

\* The proximity group of a scene entity: the entity and every other entity
\* whose bounding-box centre, or (ink only) nearest point, is within the
\* tolerance of it.
ProximityGroup(w, id) ==
    { id } \cup { e \in Range(Scene(w)) : IsNearby(w.obj[id], w.obj[e], NearbyTolerance) }

\* C12: when a drag starts from a touch that landed on an entity outside the
\* lasso selection, the drag group is the proximity group of that entity;
\* when the touch landed on a lasso-selected entity, the drag group is
\* exactly the lasso selection.
C12_DragGroupSeeding ==
    [][(DragStartStep /\ dm'.selectedStroke # Null) =>
          IF hist.grab.touch \in TouchesDown(World)
          THEN dm'.draggedStrokes = hist.grab.group
          ELSE Range(dm'.draggedStrokes) = ProximityGroup(World', dm'.selectedStroke)]_vars

-----------------------------------------------------------------------------
(* The canvas actions applied to the sketched scene *)

MaxIds == 3

\* The lists of distinct stroke ids, in any order, an action can be called
\* with: positions of the scene, one below and one or more beyond.
IdLists ==
    LET ids == (0 - 1)..MaxStrokes
    IN  UNION { { l \in [1..n -> ids] : \A i, j \in 1..n : l[i] = l[j] => i = j }
                : n \in 0..MaxIds }

\* A call of CanvasActions.delete; the history keeps the list and the scene
\* it was called with.
DeleteCall ==
    /\ ~env.pen
    /\ \E strokeIds \in IdLists :
          Step([delete(World, strokeIds) EXCEPT
                  !.hist.call = [op |-> "delete", strokeIds |-> strokeIds,
                                 strokes |-> Scene(World)]])

ActionsNext == StylusDown \/ PenUp \/ DeleteCall

ActionsSpec == Init /\ [][ActionsNext]_vars

\* The entities of s at the positions (from 0) that are not in ids, in order.
Remaining(s, ids) ==
    LET keep == { i \in 1..Len(s) : (i - 1) \notin ids }
        At(k) == CHOOSE i \in keep : Cardinality({ j \in keep : j < i }) = k - 1
    IN  [ k \in 1..Cardinality(keep) |-> s[At(k)] ]

\* C13: CanvasActions.delete called with a list of distinct indices in any
\* order removes exactly the entities that were at those positions of the
\* scene, keeps the order of the others and ignores the indices below 0 or
\* not below the scene length; every ordering of the list gives that scene.
C13_DeleteByIndices ==
    hist.call.op = "delete" =>
        /\ Scene(World) = Remaining(hist.call.strokes, Range(hist.call.strokeIds))
        /\ \A other \in IdLists :
              Range(other) = Range(hist.call.strokeIds) =>
                  SpliceEach(hist.call.strokes, SortDescending(other)) = Scene(World)

\* delete has been called with the ids in ascending order, one of them
\* out of range, on a scene of two, and has removed the first entity.
C13_Witness ==
    /\ hist.call.op = "delete"
    /\ Len(hist.call.strokes) = 2
    /\ hist.call.strokeIds = << 0 - 1, 0, 2 >>
    /\ Scene(World) = << hist.call.strokes[2] >>

-----------------------------------------------------------------------------
(* The life of a stroke: drawn, dragged, pinched, reflected, enlarged,
   undone, cleared *)

\* Where the fingers land: the first on the stroke's first point, the second
\* beside it, so that the centre of the pinch is on the stroke.
StrokePts == << << 300, 200 >>, << 320, 200 >> >>

\* The way a finger moves, from where it landed: a drag with one finger
\* down, a pinch with two.
StrokeAway == << << 400, 200 >>, << 420, 200 >> >>

\* The lists of stroke indices the canvas actions are called with here: the
\* stroke, the stroke with an index past the scene, and nothing.
CallIds == { << 0 >>, << 1, 0 >>, << >> }

\* The stroke of the scene, if there is one, is as the pen drew it: every
\* move of a finger and every canvas action here starts from the stroke as
\* drawn, and what it made of the stroke is then undone, cleared or left.
AsDrawn(w) ==
    \A id \in Range(Scene(w)) :
        w.obj[id].points = << << 300, 200 >>, << 340, 200 >> >>

\* The saves of a scenario: the snapshots the undo stack gets to hold.
Saved(w) == Len(w.undoManager.stack) <= MaxSnapshots

\* The pen draws one stroke, from the first sketch point to the second.
StrokeDown ==
    /\ TouchesDown(World) = {} /\ Len(undoManager.stack) = 1
    /\ PenDownAt(<< 300, 200 >>)

StrokeMove ==
    /\ TouchesDown(World) = {}
    /\ PenMoveTo(<< 340, 200 >>)

StrokeUp ==
    /\ dm.currentStroke # NoStroke /\ Len(dm.currentStroke.points) = 2
    /\ PenUp

StrokeTouchDown ==
    /\ ~env.pen
    /\ Cardinality(TouchesDown(World)) < Len(StrokePts)
    /\ TouchDownAt(StrokePts[Cardinality(TouchesDown(World)) + 1])

StrokeTouchMove ==
    /\ AsDrawn(World)
    /\ \E f \in TouchesDown(World) :
          /\ env.touch[f] # StrokeAway[Len(StrokeAway)]
          /\ TouchMoveTo(f, IF env.touch[f] \in Range(StrokeAway)
                            THEN StrokeAway[IndexOf(StrokeAway, env.touch[f]) + 1]
                            ELSE StrokeAway[1])

StrokeTouchUp == TouchUp /\ Saved(World')

StrokeUndo == TwoTouchUp /\ Saved(World')

StrokeClear == ClearButton /\ Saved(World')

ReflectCall ==
    /\ ~env.pen /\ TouchesDown(World) = {} /\ AsDrawn(World)
    /\ \E strokeIds \in CallIds :
          Step([reflect(World, strokeIds) EXCEPT
                  !.hist.call = [op |-> "reflect", strokeIds |-> strokeIds,
                                 strokes |-> Scene(World)]])
    /\ Saved(World')

EnlargeCall ==
    /\ ~env.pen /\ TouchesDown(World) = {} /\ AsDrawn(World)
    /\ \E strokeIds \in CallIds :
          Step([enlarge(World, strokeIds) EXCEPT
                  !.hist.call = [op |-> "enlarge", strokeIds |-> strokeIds,
                                 strokes |-> Scene(World)]])
    /\ Saved(World')

StrokeNext ==
    \/ StrokeDown \/ StrokeMove \/ StrokeUp
    \/ StrokeTouchDown \/ StrokeTouchMove \/ StrokeTouchUp \/ StrokeUndo
    \/ StrokeClear \/ ReflectCall \/ EnlargeCall

StrokeSpec == Init /\ [][StrokeNext]_vars

\* The ink strokes there are: those of the scene and of every undo snapshot
\* (the entities of the heap), and the stroke being drawn.
AllStrokes ==
    { obj[id] : id \in { i \in DOMAIN obj : obj[i].type # "image-object" } }
        \cup (IF dm.currentStroke = NoStroke THEN {} ELSE { dm.currentStroke })

\* C14: every stroke of the scene, the stroke being drawn and every stroke of
\* every undo snapshot has as many pressures and as many tilts as it has
\* points, whatever was drawn, dragged, pinched, reflected, enlarged, undone
\* or cleared.
C14_StrokeArraysAligned ==
    \A stroke \in AllStrokes :
        /\ Len(stroke.points) = Len(stroke.pressures)
        /\ Len(stroke.points) = Len(stroke.tilts)

\* A stroke of two points was pinched to five times its length, and the
\* two-finger undo brought the stroke back as it was drawn: the scene holds
\* it, and the heap holds the pinched one in a later snapshot.
C14_Witness ==
    /\ toast = "Undo"
    /\ Len(Scene(World)) = 1 /\ AsDrawn(World)
    /\ \E id \in DOMAIN obj :
          /\ id \notin Range(Scene(World))
          /\ Len(obj[id].points) = 2
          /\ obj[id].points[2][1] - obj[id].points[1][1] = 200

-----------------------------------------------------------------------------
(* The pinch on an image: a sketch dropped on the corner becomes an image in
   the middle of the canvas, and two fingers resize it *)

\* The ways of a pinch: where the first finger lands, where the second
\* lands, and where the second moves to.  The touches close in from a
\* thousand units apart to one unit, and spread from one unit to a hundred,
\* about the middle of the image.
PinchWays ==
    { << << 100, 200 >>, << 1100, 200 >>, << 101, 200 >> >>,
      << << 600, 200 >>, << 601, 200 >>, << 700, 200 >> >> }

\* The finger that drags the sketch to the corner.
PinchTap == ImagesIn(obj, Scene(World)) = {} /\ TapDown

PinchDrag == ImagesIn(obj, Scene(World)) = {} /\ DragToCorner

\* The dispatched sketch is classified as a new image (one dispatch).
PinchDispatch ==
    \/ CaptureDone \/ PauseDone \/ ClassifiedGenerate
    \/ GenerateSucceeded \/ ImageLoaded

\* Two fingers land, one after the other, once the image is in the scene.
PinchDown ==
    /\ ~env.pen /\ ImagesIn(obj, Scene(World)) # {}
    /\ \E way \in PinchWays :
          \/ TouchesDown(World) = {} /\ TouchDownAt(way[1])
          \/ /\ TouchesDown(World) = { 1 } /\ env.touch[1] = way[1]
             /\ TouchDownAt(way[2])

\* The second finger moves (a move may report the same position again).
PinchMove ==
    /\ TouchesDown(World) = { 1, 2 }
    /\ \E way \in PinchWays :
          /\ env.touch[1] = way[1] /\ env.touch[2] \in { way[2], way[3] }
          /\ TouchMoveTo(2, way[3])

PinchUp == TouchUp /\ Saved(World')

PinchNext ==
    \/ FirstStylusDown \/ PenUp
    \/ PinchTap \/ PinchDrag \/ PinchUp
    \/ PinchDispatch
    \/ PinchDown \/ PinchMove

PinchSpec == Init /\ [][PinchNext]_vars

\* The step is a move of one of the two touches of a pinch under way.
ScaleMoveStep ==
    /\ dm.isScaling
    /\ Cardinality(TouchesDown(World)) = 2
    /\ TouchesDown(World') = TouchesDown(World)
    /\ env'.touch # env.touch

\* The image objects a two-touch move resizes: the target of the pinch, or
\* the selected images when the target is a selected ink stroke.
Resized ==
    IF dm.scaleTarget = Null THEN {}
    ELSE IF IsImage(World, dm.scaleTarget) THEN { dm.scaleTarget }
    ELSE IF obj[dm.scaleTarget].selected
    THEN { id \in ImagesIn(obj, Scene(World)) : obj[id].selected }
    ELSE {}

\* C15: after every two-touch move of a pinch, the width and the height of
\* each image object the move resized lie between 50 and 1000, whatever the
\* ratio of the current to the initial distance of the touches.
C15_PinchSizeWithinBounds ==
    [][ScaleMoveStep =>
          \A id \in Resized :
              /\ obj'[id].width \in MinSize..MaxSize
              /\ obj'[id].height \in MinSize..MaxSize]_vars

\* A pinch that began with the touches a thousand units apart has brought
\* them one unit apart, the ratio 1/1000, and the image is 50 wide and high.
C15_Witness ==
    /\ dm.isScaling /\ dm.scaleStartDistance = 1000
    /\ TouchesDown(World) = { 1, 2 }
    /\ Dist(env.touch[1], env.touch[2]) = 1
    /\ dm.scaleTarget \in ImagesIn(obj, Scene(World))
    /\ obj[dm.scaleTarget].width = MinSize
    /\ obj[dm.scaleTarget].height = MinSize

-----------------------------------------------------------------------------
(* The lasso around an image and a stroke: the image of a dispatched sketch
   in the middle of the canvas, a stroke drawn beside it, and a finger that
   taps the stroke or draws a lasso path *)

\* Where the pen draws the stroke beside the image.
InkPt == << 300, 200 >>

\* Where the finger lands: on empty canvas, and on the stroke.
LassoStarts == { << 250, 150 >>, InkPt }

\* Where the finger moves: the corners of the lasso paths.
LassoPts == { << 700, 150 >>, << 700, 300 >>, << 320, 300 >> }

ImageThere == ImagesIn(obj, Scene(World)) # {}

\* The pen draws one stroke beside the image.
InkDown ==
    /\ ImageThere /\ Len(Scene(World)) = 1 /\ TouchesDown(World) = {}
    /\ PenDownAt(InkPt)

\* The pen goes on to a second point, which some lasso paths leave outside.
InkMove == ImageThere /\ PenMoveTo(<< 260, 200 >>)

LassoDown ==
    /\ ~env.pen /\ ImageThere /\ TouchesDown(World) = {}
    /\ \E p \in LassoStarts : TouchDownAt(p)

LassoMove ==
    /\ ImageThere
    /\ \E f \in TouchesDown(World), p \in LassoPts : TouchMoveTo(f, p)

LassoNext ==
    \/ FirstStylusDown \/ PenUp
    \/ PinchTap \/ PinchDrag \/ TouchUp
    \/ PinchDispatch
    \/ InkDown \/ InkMove \/ LassoDown \/ LassoMove

LassoSpec == Init /\ [][LassoNext]_vars


\* A ray from the point to the right crosses the edge from a to b: the edge
\* reaches from the point's height or below it to above it, and at the
\* point's height it lies to the right of the point.
RayCrosses(point, a, b) ==
    LET lo == IF a[2] <= b[2] THEN a ELSE b
        hi == IF a[2] <= b[2] THEN b ELSE a
    IN  /\ lo[2] <= point[2] /\ point[2] < hi[2]
        /\ (point[1] - lo[1]) * (hi[2] - lo[2]) < (hi[1] - lo[1]) * (point[2] - lo[2])

\* Even-odd ray casting over the closed polygon: the edges join each vertex
\* to the next and the last to the first.
EvenOddInside(point, polygon) ==
    LET n == Len(polygon)
        edges == { k \in 1..n : RayCrosses(point, polygon[k], polygon[(k % n) + 1]) }
    IN  Cardinality(edges) % 2 = 1

\* The entity has a point (ink) or its centre (image) inside the polygon.
Enclosed(e, polygon) ==
    IF e.type = "image-object" THEN EvenOddInside(e.position, polygon)
    ELSE \E j \in 1..Len(e.points) : EvenOddInside(e.points[j], polygon)

\* C16: findStrokesInLasso returns exactly the entities of the scene that
\* have a point (ink stroke) or their centre (image object) inside the lasso
\* polygon, by even-odd ray casting over the closed polygon, each once and in
\* the order of the scene; no other entity is returned.
C16_LassoContainment ==
    LET Within(id) == Enclosed(obj[id], dm.lassoPoints)
    IN  findStrokesInLasso(World, dm.lassoPoints) = SelectSeq(Scene(World), Within)

\* A lasso path of three points goes round one of the two points of the
\* stroke and past the centre of the image: the stroke alone is returned.
C16_Witness ==
    /\ dm.isLassoSelecting /\ Len(dm.lassoPoints) = 3
    /\ Len(Scene(World)) = 2
    /\ ImagesIn(obj, Scene(World)) # {}
    /\ \E id \in Range(Scene(World)) :
          /\ ~IsImage(World, id) /\ Len(obj[id].points) = 2
          /\ ~EvenOddInside(obj[id].points[2], dm.lassoPoints)
          /\ findStrokesInLasso(World, dm.lassoPoints) = << id >>


\* Finger f draws a lasso: it went down on empty canvas, its moves have made
\* a path of at least three points, and it is at the end of the path.
LassoUnderWay(f) ==
    /\ TouchesDown(World) = { f }
    /\ dm.isLassoSelecting /\ Len(dm.lassoPoints) >= 3
    /\ findStrokeAtPoint(World, dm.lassoPoints[1]) = Null
    /\ env.touch[f] = dm.lassoPoints[Len(dm.lassoPoints)]

\* C17: every lasso gesture (a touch that goes down on empty canvas, moves
\* along a path of at least three points and is lifted) ends with
\* isLassoSelecting false, the path cleared, and selectedStrokes the entities
\* inside the path, each with its selected flag set, whatever gestures came
\* before it.
C17_LassoGestureEnds ==
    [][\A f \in TouchesDown(World) :
          (LassoUnderWay(f) /\ f \notin TouchesDown(World')) =>
              LET Within(id) == Enclosed(obj[id], dm.lassoPoints)
                  inside == SelectSeq(Scene(World), Within)
              IN  /\ ~dm'.isLassoSelecting
                  /\ dm'.lassoPoints = << >>
                  /\ dm'.selectedStrokes = inside
                  /\ \A id \in Range(inside) : obj'[id].selected]_vars


-----------------------------------------------------------------------------
(* The two-finger undo and the gestures in progress *)

\* The world the touchend listener finds when both touches have ended
\* together: the two pointerup events have been handled.
AtTouchEnd ==
    LET f == Min(TouchesDown(World))
        g == Max(TouchesDown(World))
    IN  handlePointerUp(handlePointerUp(Lifted(Lifted(World, f), g)))

GestureInProgress(w) == w.dm.isDrawing \/ w.dm.isDragging \/ w.dm.isLassoSelecting

\* C18: a touch-end event in which two touches end together undoes only
\* when no drawing, drag or lasso is in progress: while isDrawing, isDragging
\* or isLassoSelecting is true it leaves the scene and the position of the
\* undo history as they are.
C18_UndoOnlyWhenIdle ==
    [][(/\ Cardinality(TouchesDown(World)) = 2
        /\ TouchesDown(World') = {}
        /\ GestureInProgress(AtTouchEnd))
          => /\ undoManager'.position = onTouchEnd(AtTouchEnd).undoManager.position
             /\ Contents(obj', arr', dm'.strokes)
                   = Contents(AtTouchEnd.obj, AtTouchEnd.arr, AtTouchEnd.dm.strokes)]_vars


-----------------------------------------------------------------------------
(* The options menu: an image and a stroke beside it, lassoed together or
   taken one by one, dropped on the corner *)

\* The lasso path round the stroke and the centre of the image.
MenuPath == << << 250, 150 >>, << 700, 150 >>, << 450, 400 >> >>

\* Where a finger takes hold: of the stroke, and of the image.
MenuHolds == { InkPt, << 600, 200 >> }

\* A finger lands: at the start of the lasso path, or on an entity.
MenuDown ==
    /\ ~env.pen /\ ImageThere /\ Len(Scene(World)) = 2 /\ TouchesDown(World) = {}
    /\ DOMAIN tasks = {}
    /\ \E p \in { MenuPath[1] } \cup MenuHolds : TouchDownAt(p)

\* The finger of the lasso follows the path.
MenuLasso ==
    /\ ImageThere /\ dm.isLassoSelecting /\ dm.lassoPoints # << >>
    /\ Len(dm.lassoPoints) < Len(MenuPath)
    /\ \E f \in TouchesDown(World) :
          /\ env.touch[f] = MenuPath[Len(dm.lassoPoints)]
          /\ TouchMoveTo(f, MenuPath[Len(dm.lassoPoints) + 1])

\* The finger that holds an entity drags it to the corner.
MenuDrag ==
    /\ ImageThere /\ ~dm.isLassoSelecting
    /\ DragToCorner

MenuNext ==
    \/ FirstStylusDown \/ InkDown \/ PenUp
    \/ PinchTap \/ PinchDrag \/ TouchUp
    \/ PinchDispatch \/ Frame
    \/ MenuDown \/ MenuLasso \/ MenuDrag
    \/ OptionsShown \/ OptionsFailed \/ PickOption \/ DismissOptions
    \/ EditSucceeded \/ EditFailed

MenuSpec == Init /\ [][MenuNext]_vars


\* The captured group of a task holds both ink and an image.
Mixed(t) ==
    /\ \E i \in 1..Len(t.group) : obj[t.group[i]].type = "image-object"
    /\ \E i \in 1..Len(t.group) : obj[t.group[i]].type # "image-object"

\* The task has not come to the pick of an option yet: it captures, pauses,
\* asks for the options or shows them.
BeforePick(t) == t.pc \in { "capture", "pause", "options", "menu" }

\* The step is the click on one of the chips of task d.
PickStep(d) == menu = d /\ menu' = Null /\ d \in DOMAIN tasks' /\ tasks'[d].viaMenu

\* The step is the click on the dismiss button of task d's chips.
DismissStep(d) == menu = d /\ menu' = Null /\ ~PickStep(d)

\* The ink of the group that is in the scene stays, and no image of the group
\* gets its isGenerating flag set.
GroupUntouched(g) ==
    \A i \in 1..Len(g) :
        IF obj[g[i]].type = "image-object"
        THEN obj'[g[i]].isGenerating = obj[g[i]].isGenerating
        ELSE g[i] \in Range(Scene(World)) => g[i] \in Range(SceneAfter)

\* C19: for a captured group of ink and an image the dispatcher removes no
\* stroke, does not set isGenerating on the image and does not call the edit
\* endpoint until the user picks one of the options offered; dismissing the
\* options leaves every entity of the group in the scene.  A group of ink
\* alone or of images alone never gets the options menu.
C19_MenuBeforeEdit ==
    [][/\ \A d \in DOMAIN tasks' \ DOMAIN tasks :
             Mixed(tasks'[d]) =>
                 /\ BeforePick(tasks'[d])
                 /\ GroupUntouched(tasks'[d].group)
       /\ \A d \in DOMAIN tasks :
             (Mixed(tasks[d]) /\ BeforePick(tasks[d]) /\ ~PickStep(d)) =>
                 /\ GroupUntouched(tasks[d].group)
                 /\ d \in DOMAIN tasks' => tasks'[d].pc \notin { "editing", "decode" }
                 /\ DismissStep(d) => Range(tasks[d].group) \subseteq Range(SceneAfter)
       /\ \A d \in DOMAIN tasks' :
             ~Mixed(tasks'[d]) => (tasks'[d].pc \notin { "options", "menu" } /\ menu' # d)]_vars

\* The options of a group of one stroke and one image are on show: the
\* stroke is in the scene and the image is not being generated.
C19_Witness ==
    /\ menu # Null /\ menu \in DOMAIN tasks
    /\ tasks[menu].pc = "menu" /\ Mixed(tasks[menu])
    /\ Range(tasks[menu].group) \subseteq Range(Scene(World))
    /\ \A id \in ImagesIn(obj, tasks[menu].group) : ~obj[id].isGenerating

-----------------------------------------------------------------------------
(* The classification reply: JSON.parse and the fallback of the analyzers *)

\* The content of a reply is a sequence of tokens: the punctuation of an
\* object, the literal null, and string literals (any other token).
Punctuation == { "{", "}", ":", ",", "null" }

IsText(token) == token \notin Punctuation

\* What JSON.parse returns: an object with string members, a string or null.
JSONobject(fields) == [kind |-> "object", fields |-> fields, text |-> ""]
JSONstring(text) == [kind |-> "string", fields |-> << >>, text |-> text]
JSONnull == [kind |-> "null", fields |-> << >>, text |-> ""]

\* The value of a member an object does not have.
Undefined == [kind |-> "undefined", fields |-> << >>, text |-> ""]

SyntaxError == [ok |-> FALSE, value |-> JSONnull]
Parsed(value) == [ok |-> TRUE, value |-> value]

RECURSIVE Members(_, _, _)
\* The members of an object from token i on; a later duplicate of a key
\* replaces the earlier one.
Members(content, i, fields) ==
    IF i + 3 <= Len(content) /\ IsText(content[i]) /\ content[i + 1] = ":"
       /\ IsText(content[i + 2])
    THEN LET read == [ k \in DOMAIN fields \cup { content[i] } |->
                         IF k = content[i] THEN content[i + 2] ELSE fields[k] ]
         IN  IF content[i + 3] = "}"
             THEN IF i + 3 = Len(content) THEN Parsed(JSONobject(read)) ELSE SyntaxError
             ELSE IF content[i + 3] = "," THEN Members(content, i + 4, read)
             ELSE SyntaxError
    ELSE SyntaxError

\* JSON.parse(content): the whole content has to be one value.
JSONparse(content) ==
    IF content = << "null" >> THEN Parsed(JSONnull)
    ELSE IF Len(content) = 1 /\ IsText(content[1]) THEN Parsed(JSONstring(content[1]))
    ELSE IF content = << "{", "}" >> THEN Parsed(JSONobject(<< >>))
    ELSE IF Len(content) > 2 /\ content[1] = "{" THEN Members(content, 2, << >>)
    ELSE SyntaxError

\* How a call ends: with a value, or with an exception.
Returned(value) == [threw |-> FALSE, value |-> value]
Thrown == [threw |-> TRUE, value |-> JSONnull]

\* value.key: a TypeError on null, undefined where there is no such member.
Get(value, key) ==
    IF value.kind = "null" THEN Thrown
    ELSE IF value.kind = "object" /\ key \in DOMAIN value.fields
    THEN Returned(JSONstring(value.fields[key]))
    ELSE Returned(Undefined)

DefaultAction ==
    JSONobject([action_type |-> "generate",
                image_prompt |-> "A beautiful artistic illustration",
                description |-> "Generate new image from sketch"])

DefaultDrawing ==
    JSONobject([emoji |-> "U+1F4E6",
                behavior |-> "A mysterious object that reacts to touch"])

\* An analyzer that lets the SyntaxError of JSON.parse out.
Rethrowing(content) ==
    LET r == JSONparse(content)
    IN  IF r.ok THEN Returned(r.value) ELSE Thrown

\* analyzeAction once the reply has arrived: try JSON.parse, catch -> default.
analyzeAction(content) ==
    LET r == JSONparse(content)
    IN  IF r.ok THEN Returned(r.value) ELSE Returned(DefaultAction)

\* analyzeDrawing once the reply has arrived.
analyzeDrawing(content) ==
    LET r == JSONparse(content)
    IN  IF r.ok THEN Returned(r.value) ELSE Returned(DefaultDrawing)


\* The descriptions for which toLowerCase().includes('delete') holds.
TextsWithDelete == { "delete the sketch", "Delete" }

\* The contents a classification reply is drawn from: three objects and
\* null, which JSON.parse accepts, then a truncated object, an object after
\* a sentence of prose and the empty content, which it rejects.
Replies ==
    << << "{", "action_type", ":", "update", "}" >>,
       << "{", "action_type", ":", "execute_action", ",",
          "description", ":", "delete the sketch", "}" >>,
       << "{", "emoji", ":", "U+2B50", ",", "behavior", ":", "twinkles", "}" >>,
       << "null" >>,
       << "{", "action_type", ":", "update" >>,
       << "Here is the JSON", "{", "action_type", ":", "update", "}" >>,
       << >> >>

\* processDrawing of the image build from the reply on: the switch on
\* action.action_type; an exception ends in the catch.
classified(w, d, content) ==
    LET failed == finishUpload([w EXCEPT !.toast = "Processing failed"], d, "failed")
        action == analyzeAction(content)
        type == Get(action.value, "action_type")
        description == Get(action.value, "description")
    IN  IF action.threw \/ type.threw THEN failed
        ELSE IF type.value = JSONstring("generate") THEN generateNewImage(w, d)
        ELSE IF type.value = JSONstring("update")
        THEN updateExistingImage(w, d, w.tasks[d].group)
        ELSE IF type.value = JSONstring("execute_action")
        THEN IF description.value.kind # "string" THEN failed
             ELSE finishUpload(executeCustomAction(w, w.tasks[d].group,
                                   description.value.text \in TextsWithDelete),
                               d, "none")
        ELSE finishUpload(w, d, "none")

\* The call of an analyzer the last step has made, with the reply it got.
Analyzed(op, k) == [op |-> op, strokeIds |-> << k >>, strokes |-> << >>]

\* The classification reply of the image build arrives.
ClassifiedReply ==
    \E d \in DOMAIN tasks, k \in DOMAIN Replies :
        /\ tasks[d].pc = "classify"
        /\ Step([classified(World, d, Replies[k]) EXCEPT
                    !.hist.call = Analyzed("analyzeAction", k)])

(* The smart-object build: the drop starts processDrawing on the manager's
   drag group itself; nothing is removed before the reply. *)

\* processDrawing up to its first await: the capture, the toast.
processDrawing(w, g) ==
    LET d == FreshId(DOMAIN w.tasks)
    IN  [StartTask(w, g, "drop") EXCEPT !.tasks[d].pc = "smart-pause",
                                        !.tasks[d].kind = "smart",
                                        !.toast = "Sending to AI..."]

\* finishDragging of the smart-object build over the drop zone.
finishDraggingOverDropZone(w) ==
    hideDropZone(processDrawing([w EXCEPT !.dm.isDragging = FALSE], w.dm.draggedStrokes))

createSmartObject(w, result, g) ==
    LET action == Get(result, "action").value
        smartObject == [type |-> "smart-object",
                        position |-> << CanvasWidth \div 2, CanvasHeight \div 2 >>,
                        emoji |-> Get(result, "emoji").value,
                        behavior |-> Get(result, "behavior").value,
                        action |-> IF action.kind = "string" /\ action.text # ""
                                   THEN action ELSE JSONnull,
                        selected |-> FALSE]
        w1 == SetScene(w, RemoveEach(Scene(w), g))
        w2 == Alloc(w1, smartObject)
        w3 == save(SetScene(w2, Append(Scene(w2), NewId(w1))))
    IN  [w3 EXCEPT !.dm.draggedStrokes = << >>, !.dm.selectedStrokes = << >>]

\* processDrawing of the smart-object build from the reply on.
analyzed(w, d, content) ==
    LET result == analyzeDrawing(content)
        done == [w EXCEPT !.tasks[d].pc = "done"]
    IN  IF result.threw \/ Get(result.value, "emoji").threw
        THEN [done EXCEPT !.tasks[d].outcome = "failed", !.toast = "Processing failed"]
        ELSE [createSmartObject(done, result.value, w.tasks[d].group) EXCEPT
                 !.tasks[d].outcome = "succeeded", !.toast = "Smart object created!"]

SmartObjectsIn(o, s) == { id \in Range(s) : o[id].type = "smart-object" }

\* The finger that holds a sketch over the drop zone is lifted, in the
\* smart-object build (it has no image objects).
SmartDrop ==
    \E f \in TouchesDown(World) :
        /\ ~dm.isDrawing /\ dm.isDragging /\ dm.isOverDropZone
        /\ ImagesIn(obj, Scene(World)) = {}
        /\ Step(finishDraggingOverDropZone(Lifted(World, f)))

SmartPauseDone ==
    \E d \in DOMAIN tasks :
        /\ tasks[d].pc = "smart-pause"
        /\ Step(SetTask(World, d, "pc", "smart-classify"))

\* The classification reply of the smart-object build arrives.
AnalyzedReply ==
    \E d \in DOMAIN tasks, k \in DOMAIN Replies :
        /\ tasks[d].pc = "smart-classify"
        /\ Step([analyzed(World, d, Replies[k]) EXCEPT
                    !.hist.call = Analyzed("analyzeDrawing", k)])

\* The request of analyzeDrawing failed: processDrawing's catch.
AnalyzeFailed ==
    \E d \in DOMAIN tasks :
        /\ tasks[d].pc = "smart-classify"
        /\ Step([World EXCEPT !.tasks[d].pc = "done", !.tasks[d].outcome = "failed",
                              !.toast = "Processing failed"])

\* The gestures, while the scene holds no smart object (the handlers of the
\* image build read the points of everything that is no image object).
ReplyTap == SmartObjectsIn(obj, Scene(World)) = {} /\ TapDown

ReplyDrag == SmartObjectsIn(obj, Scene(World)) = {} /\ DragToCorner

ReplyUp == SmartObjectsIn(obj, Scene(World)) = {} /\ TouchUp

ReplyNext ==
    \/ FirstStylusDown \/ PenUp
    \/ ReplyTap \/ ReplyDrag \/ ReplyUp \/ SmartDrop
    \/ CaptureDone \/ PauseDone \/ ClassifiedReply \/ ClassifyFailed
    \/ GenerateSucceeded \/ ImageLoaded \/ Frame \/ EditSucceeded
    \/ SmartPauseDone \/ AnalyzedReply \/ AnalyzeFailed

ReplySpec == Init /\ [][ReplyNext]_vars


\* The content of reply k is not valid JSON.
Invalid(k) == ~JSONparse(Replies[k]).ok

\* The step has gone on as for a reply {"action_type": "generate"}: a task
\* of the image build that awaited its classification now awaits the
\* generated image behind its placeholder.
GoesOnToGenerate ==
    \E d \in DOMAIN tasks :
        /\ tasks[d].pc = "classify"
        /\ d \in DOMAIN tasks' /\ tasks'[d].pc = "generating"
        /\ tasks'[d].outcome = "pending"
        /\ PlaceholderAppended(d)
        /\ toast' = "Generating image..."

\* The step has gone on to createSmartObject with the default result: a task
\* that awaited its classification has ended, and its group has left the
\* scene for a smart object that carries the default emoji and behavior and
\* no action.
GoesOnToDefaultObject ==
    LET s == SceneAfter
    IN  /\ toast' = "Smart object created!"
        /\ s # << >>
        /\ obj'[s[Len(s)]].type = "smart-object"
        /\ obj'[s[Len(s)]].emoji = JSONstring("U+1F4E6")
        /\ obj'[s[Len(s)]].behavior = JSONstring("A mysterious object that reacts to touch")
        /\ obj'[s[Len(s)]].action = JSONnull
        /\ \E d \in DOMAIN tasks :
              /\ tasks[d].pc = "smart-classify"
              /\ d \notin DOMAIN tasks'
              /\ Range(tasks[d].group) \cap Range(s) = {}

\* C20: when the content of a classification reply is not valid JSON,
\* analyzeAction and analyzeDrawing return their hardcoded default result
\* without throwing, and the dispatch goes on with that default: the image
\* build generates a new image, the smart-object build creates the default
\* smart object, and neither ends in the "Processing failed" catch.
C20_ParseFailureFallsBack ==
    [][ \A k \in DOMAIN Replies :
          Invalid(k) =>
            /\ analyzeAction(Replies[k]) = Returned(DefaultAction)
            /\ analyzeDrawing(Replies[k]) = Returned(DefaultDrawing)
            /\ hist'.call = Analyzed("analyzeAction", k) => GoesOnToGenerate
            /\ hist'.call = Analyzed("analyzeDrawing", k) => GoesOnToDefaultObject
      ]_vars

\* The truncated reply has arrived in the image build and the task is
\* generating the default image.
C20_Witness ==
    /\ hist.call = Analyzed("analyzeAction", 5)
    /\ Replies[5] = << "{", "action_type", ":", "update" >>
    /\ \E d \in DOMAIN tasks :
          /\ tasks[d].pc = "generating"
          /\ obj[tasks[d].img].isGenerating
    /\ toast = "Generating image..."


-----------------------------------------------------------------------------
(* The scene list under drawing, dispatch, undo and clear *)

NoSmartObject == SmartObjectsIn(obj, Scene(World)) = {}

OneTouch == Cardinality(TouchesDown(World)) = 1

\* The gestures of the scenario: a tap on the sketch, a drag to the corner
\* and a lift with one finger; the undo gesture with a second finger that
\* lands in the corner and lifts together with the first.
SceneTap == NoSmartObject /\ TapDown

SceneSecond ==
    /\ NoSmartObject /\ ~env.pen /\ OneTouch
    /\ \A f \in TouchesDown(World) : env.touch[f] = << 600, 0 >>
    /\ TouchDownAt(<< CanvasWidth, 0 >>)

SceneDrag == NoSmartObject /\ OneTouch /\ DragToCorner

SceneUp == NoSmartObject /\ OneTouch /\ TouchUp /\ Saved(World')

SceneUndo == NoSmartObject /\ TwoTouchUp /\ Saved(World')

SceneClear == TouchesDown(World) = {} /\ ClearButton /\ Saved(World')

\* The classification of the smart-object build arrives with an emoji and
\* a behavior.
StarReply ==
    \E d \in DOMAIN tasks :
        /\ tasks[d].pc = "smart-classify"
        /\ Step(analyzed(World, d, Replies[3]))

SceneNext ==
    \/ FirstStylusDown \/ InkDown \/ PenUp
    \/ SceneTap \/ SceneSecond \/ SceneDrag \/ SceneUp \/ SceneUndo \/ SceneClear
    \/ CaptureDone \/ PauseDone \/ ClassifiedGenerate
    \/ GenerateSucceeded \/ GenerateFailed
    \/ SmartDrop \/ SmartPauseDone \/ StarReply

SceneSpec == Init /\ [][SceneNext]_vars

NoDuplicates(s) == \A i, j \in 1..Len(s) : s[i] = s[j] => i = j

\* C21: after any sequence of gestures, dispatch completions, undo and
\* clear, no entity object occupies two positions of the scene list.
C21_NoEntityTwice == NoDuplicates(Scene(World))

\* An undo has been made with the generated image and a later stroke in the
\* scene.
C21_Witness ==
    /\ toast = "Undo"
    /\ Len(Scene(World)) = 2
    /\ ImagesIn(obj, Scene(World)) # {}
    /\ undoManager.position < Len(undoManager.stack) - 1


-----------------------------------------------------------------------------
(* The depth of the snapshot history: commits past maxLength *)

\* A step to a world, the history being as long as the program lets it grow.
HistoryStep(w) ==
    LET c == Collected(w)
    IN  /\ dm' = c.dm /\ obj' = c.obj /\ arr' = c.arr
        /\ undoManager' = c.undoManager
        /\ timers' = c.timers /\ tasks' = c.tasks /\ menu' = c.menu
        /\ env' = c.env /\ ring' = c.ring /\ toast' = c.toast /\ hist' = c.hist

\* The clear button, nothing being on the glass: every press commits a
\* snapshot.
HistoryCommit ==
    /\ ~env.pen /\ TouchesDown(World) = {}
    /\ HistoryStep(clearCanvas(World))

\* A touchend event with two changed touches: the first one comes when the
\* history has grown to maxLength items behind the newest, the next ones
\* follow it without a commit in between.
HistoryTouchEnd ==
    /\ Len(undoManager.stack) = UndoMaxLength + 1
    /\ undoManager.stack[1] = Null
    /\ toast = "" \/ undoManager.position < UndoMaxLength
    /\ HistoryStep(handleTouchEnd(World, 2))

HistoryNext == HistoryCommit \/ HistoryTouchEnd

HistorySpec == Init /\ [][HistoryNext]_vars

\* The snapshots the history holds (its first item is null until evicted).
SnapshotsHeld == { i \in 1..Len(undoManager.stack) : undoManager.stack[i] # Null }

\* A commit made with maxLength items behind the newest one.
CommitWhenFull ==
    /\ undoManager.position = UndoMaxLength
    /\ undoManager'.stack # undoManager.stack

-----------------------------------------------------------------------------
(* The smart-object build's gestures (DrawingManager of the build with
   smart objects): one finger drags at once, a press starts the drag
   without a long tap, and a drag released on an actionable smart object
   executes that object's action on the drag group. *)

SmartRadius == 40

\* The drop zone is a page element; the hover test compares the point with
\* its bounding rectangle, here the square at the canvas's top-right corner.
DropZoneRect ==
    [left |-> CanvasWidth - DropRadius, right |-> CanvasWidth,
     top |-> 0, bottom |-> DropRadius]

IsSmart(w, id) == w.obj[id].type = "smart-object"

\* smartObject.action as a condition: null and the empty string are falsy.
Actionable(e) == e.action.kind = "string" /\ e.action.text # ""

\* findStrokeAtPoint of the smart-object build: the topmost entity hit, a
\* smart object within its radius, a stroke by a point within the tolerance.
findStrokeAtPointSmart(w, point) ==
    LET s == Scene(w)
        Hit(e) == IF e.type = "smart-object"
                  THEN Dist2(point, e.position) <= Sq(SmartRadius)
                  ELSE \E j \in 1..Len(e.points) :
                           Dist2(point, e.points[j]) <= Sq(HitTolerance)
        hits == { i \in 1..Len(s) : Hit(w.obj[s[i]]) }
    IN  IF hits = {} THEN Null ELSE s[Max(hits)]

findSmartObjectAtPoint(w, point) ==
    LET s == Scene(w)
        hits == { i \in 1..Len(s) :
                    /\ IsSmart(w, s[i])
                    /\ Dist2(point, w.obj[s[i]].position) <= Sq(SmartRadius) }
    IN  IF hits = {} THEN Null ELSE s[Max(hits)]

updateActionableObjectHover(w, point) ==
    LET smartObject == findSmartObjectAtPoint(w, point)
    IN  IF smartObject # Null /\ Actionable(w.obj[smartObject])
        THEN [w EXCEPT !.dm.hoveredSmartObject = smartObject]
        ELSE [w EXCEPT !.dm.hoveredSmartObject = Null]

checkDropZoneHoverSmart(w, point) ==
    [w EXCEPT !.dm.isOverDropZone =
        /\ point[1] >= DropZoneRect.left /\ point[1] <= DropZoneRect.right
        /\ point[2] >= DropZoneRect.top /\ point[2] <= DropZoneRect.bottom]

continueDraggingSmart(w, point) ==
    IF w.dm.selectedStroke = Null THEN w
    ELSE LET dx == point[1] - w.dm.dragOffset[1]
             dy == point[2] - w.dm.dragOffset[2]
             Move(e) == IF e.type = "smart-object"
                        THEN [e EXCEPT !.position = Shift(@, dx, dy)]
                        ELSE IF "points" \in DOMAIN e
                        THEN [e EXCEPT !.points =
                                 [ j \in 1..Len(@) |-> Shift(@[j], dx, dy) ]]
                        ELSE e
             w1 == [w EXCEPT !.obj = [ id \in DOMAIN w.obj |->
                        IF id \in Range(w.dm.draggedStrokes)
                        THEN Move(w.obj[id]) ELSE w.obj[id] ]]
             w2 == updateActionableObjectHover(checkDropZoneHoverSmart(w1, point), point)
         IN  [w2 EXCEPT !.dm.dragOffset = point]

\* strokes.indexOf(stroke), counting from 0; -1 for a stroke not in the list.
IndexIn(s, id) == IF id \in Range(s) THEN IndexOf(s, id) - 1 ELSE -1

executeSmartObjectAction(w, smartObject, draggedStrokes) ==
    LET e == w.obj[smartObject]
        strokeIds == [ k \in 1..Len(draggedStrokes) |-> IndexIn(Scene(w), draggedStrokes[k]) ]
        called(op) == [op |-> op, strokeIds |-> strokeIds, strokes |-> draggedStrokes]
    IN  IF ~Actionable(e) THEN w
        ELSE IF e.action.text = "delete"
        THEN [delete(w, strokeIds) EXCEPT !.toast = "Deleted strokes",
                                          !.hist.call = called("delete")]
        ELSE IF e.action.text = "reflect"
        THEN [reflect(w, strokeIds) EXCEPT !.toast = "Reflected strokes",
                                           !.hist.call = called("reflect")]
        ELSE IF e.action.text = "enlarge"
        THEN [enlarge(w, strokeIds) EXCEPT !.toast = "Enlarged strokes",
                                           !.hist.call = called("enlarge")]
        ELSE w

finishDraggingSmart(w) ==
    LET w0 == [w EXCEPT !.dm.isDragging = FALSE]
        hovered == w0.dm.hoveredSmartObject
        group == w0.dm.draggedStrokes
        dropped == [w0 EXCEPT !.dm.selectedStroke = Null,
                              !.dm.draggedStrokes = << >>,
                              !.dm.dragOffset = << 0, 0 >>]
    IN  IF w0.dm.isOverDropZone THEN finishDraggingOverDropZone(w)
        ELSE IF hovered # Null /\ Actionable(w0.obj[hovered])
        THEN LET w1 == executeSmartObjectAction(w0, hovered, group)
             IN  hideDropZone([w1 EXCEPT !.dm.hoveredSmartObject = Null,
                                         !.dm.selectedStroke = Null,
                                         !.dm.draggedStrokes = << >>,
                                         !.dm.dragOffset = << 0, 0 >>])
        ELSE IF Len(group) > 1
        THEN hideDropZone([dropped EXCEPT !.obj = SetSelected(w0.obj, group, TRUE),
                                          !.dm.selectedStrokes = group])
        ELSE IF w0.dm.selectedStroke # Null
        THEN hideDropZone([dropped EXCEPT !.obj[w0.dm.selectedStroke].selected = TRUE])
        ELSE hideDropZone(dropped)

findStrokesInLassoSmart(w, lassoPoints) ==
    LET Inside(id) ==
            LET e == w.obj[id]
            IN  IF e.type = "smart-object"
                THEN isPointInPolygon(e.position, lassoPoints)
                ELSE \E j \in 1..Len(e.points) : isPointInPolygon(e.points[j], lassoPoints)
    IN  SelectSeq(Scene(w), Inside)

finishLassoSelectionSmart(w) ==
    LET w0 == [w EXCEPT !.dm.isLassoSelecting = FALSE]
        w1 == IF Len(w0.dm.lassoPoints) > 2
              THEN LET sel == findStrokesInLassoSmart(w0, w0.dm.lassoPoints)
                   IN  [w0 EXCEPT !.dm.selectedStrokes = sel,
                                  !.obj = SetSelected(w0.obj, sel, TRUE)]
              ELSE w0
    IN  [w1 EXCEPT !.dm.lassoPoints = << >>]

handlePointerDownSmart(w, type, point, pressure) ==
    IF type = "pen" THEN startDrawing(w, point, pressure)
    ELSE IF type = "touch"
    THEN LET hit == findStrokeAtPointSmart(w, point)
             w1 == [w EXCEPT !.dm.selectedStroke = hit]
         IN  IF hit # Null
             THEN IF hit \in Range(w1.dm.selectedStrokes)
                  THEN startDragging([w1 EXCEPT !.dm.draggedStrokes = w1.dm.selectedStrokes],
                                     point)
                  ELSE LET w2 == clearLassoSelection(w1)
                       IN  startDragging([w2 EXCEPT !.obj[hit].selected = TRUE,
                                                    !.dm.draggedStrokes = << hit >>],
                                         point)
             ELSE startLassoSelection(clearAllSelections(w1), point)
    ELSE w

handlePointerMoveSmart(w, type, point, pressure) ==
    IF w.dm.isDrawing /\ type = "pen" THEN continueDrawing(w, point, pressure)
    ELSE IF w.dm.isDragging /\ type = "touch" /\ w.dm.selectedStroke # Null
    THEN continueDraggingSmart(w, point)
    ELSE IF w.dm.isLassoSelecting /\ type = "touch"
    THEN continueLassoSelection(w, point)
    ELSE w

handlePointerUpSmart(w) ==
    IF w.dm.isDrawing THEN finishDrawing(w)
    ELSE IF w.dm.isDragging THEN finishDraggingSmart(w)
    ELSE IF w.dm.isLassoSelecting THEN finishLassoSelectionSmart(w)
    ELSE w

-----------------------------------------------------------------------------
(* A scenario of the smart-object build: the pen sketches at one place, one
   finger presses a sketch or the canvas centre, drags to the corner or next
   to the centre, and lifts; sketches dropped in the corner come back as
   smart objects with or without an action. *)

MaxSmartSnapshots == 5
SmartInkPt == << 100, 100 >>
CanvasCentre == << CanvasWidth \div 2, CanvasHeight \div 2 >>
BesideCentre == << CanvasWidth \div 2 + 10, CanvasHeight \div 2 >>
SmartDownPts == { SmartInkPt, CanvasCentre }
SmartMovePts == { BesideCentre, << CanvasWidth, 0 >> }

\* Replies of the classification that name an action, or none.
ActionReplies ==
    << << "{", "emoji", ":", "U+1F5D1", ",", "action", ":", "delete", "}" >>,
       << "{", "emoji", ":", "U+1FA9E", ",", "action", ":", "reflect", "}" >>,
       << "{", "emoji", ":", "U+2B50", ",", "behavior", ":", "twinkles", "}" >> >>

\* Where an entity lies: a smart object's position, a sketch's first point.
Place(e) == IF e.type = "smart-object" THEN e.position ELSE e.points[1]

SmartFits(w) ==
    /\ Len(w.undoManager.stack) <= MaxSmartSnapshots + 1
    /\ DOMAIN w.tasks \subseteq 1..MaxTasks
    /\ Len(w.dm.lassoPoints) <= MaxLasso
    /\ Len(Scene(w)) <= MaxStrokes

SmartStep(w) == SmartFits(w) /\ HistoryStep(w)

SmartPenDown ==
    /\ ~env.pen /\ TouchesDown(World) = {} /\ DOMAIN tasks = {}
    /\ Len(Scene(World)) < MaxStrokes
    /\ \E pr \in PenPressures :
          SmartStep(handlePointerDownSmart([World EXCEPT !.env.pen = TRUE],
                                           "pen", SmartInkPt, pr))

SmartPenUp ==
    /\ env.pen
    /\ SmartStep(handlePointerUpSmart([World EXCEPT !.env.pen = FALSE]))

SmartTouchDown ==
    /\ ~env.pen /\ TouchesDown(World) = {} /\ DOMAIN tasks = {}
    /\ \E p \in SmartDownPts :
          /\ \E id \in Range(Scene(World)) : Place(obj[id]) = p
          /\ SmartStep(handlePointerDownSmart([World EXCEPT !.env.touch[1] = p],
                                              "touch", p, 0))

SmartTouchMove ==
    \E f \in TouchesDown(World), p \in SmartMovePts :
        /\ env.touch[f] \in SmartDownPts
        /\ SmartStep(handlePointerMoveSmart([World EXCEPT !.env.touch[f] = p],
                                            "touch", p, 0))

SmartTouchUp ==
    \E f \in TouchesDown(World) :
        SmartStep(handlePointerUpSmart([World EXCEPT !.env.touch[f] = NoPoint]))

SmartPause ==
    \E d \in DOMAIN tasks :
        /\ tasks[d].pc = "smart-pause"
        /\ SmartStep(SetTask(World, d, "pc", "smart-classify"))

SmartReply ==
    \E d \in DOMAIN tasks, k \in DOMAIN ActionReplies :
        /\ tasks[d].pc = "smart-classify"
        /\ SmartStep(analyzed(World, d, ActionReplies[k]))

SmartNext ==
    \/ SmartPenDown \/ SmartPenUp
    \/ SmartTouchDown \/ SmartTouchMove \/ SmartTouchUp
    \/ SmartPause \/ SmartReply

SmartSpec == Init /\ [][SmartNext]_vars

-----------------------------------------------------------------------------
(* Actions at the release of a drag, in the smart-object build *)

InDropZone(point) ==
    /\ point[1] >= DropZoneRect.left /\ point[1] <= DropZoneRect.right
    /\ point[2] >= DropZoneRect.top /\ point[2] <= DropZoneRect.bottom

\* The actionable smart objects of the scene that are no member of the drag
\* group and have their centre within the radius of the point.
ActionTargets(point) ==
    { t \in SmartObjectsIn(obj, Scene(World)) :
        /\ Actionable(obj[t])
        /\ t \notin Range(dm.draggedStrokes)
        /\ Dist2(point, obj[t].position) <= Sq(SmartRadius) }

\* Finger f ends a drag in this step.
DragReleasedBy(f) ==
    /\ dm.isDragging /\ ~dm.isDrawing
    /\ env.touch[f] # NoPoint /\ env'.touch[f] = NoPoint

ActionNames == { "delete", "reflect", "enlarge" }

\* The step has executed the action of t on exactly the members of group.
ExecutedOn(t, group) ==
    /\ hist'.call.op = obj[t].action.text
    /\ hist'.call.strokes = group
    /\ \A k \in 1..Len(group) : hist'.call.strokeIds[k] = IndexOf(Scene(World), group[k]) - 1
    /\ hist'.call.op = "delete" =>
           arr'[dm'.strokes] = RemoveEach(Scene(World), group)

\* C23: whenever a drag is released outside the corner drop zone with the
\* drop point within 40 units of the centre of an actionable smart object
\* that is no member of the drag group, that object's action is executed on
\* exactly the members of the drag group, and the drag group is then empty;
\* also when the drag group contains smart objects.
C23_ActionOnDrop ==
    [][ \A f \in DOMAIN env.touch :
          DragReleasedBy(f) /\ ~InDropZone(env.touch[f]) =>
              \A t \in ActionTargets(env.touch[f]) :
                  /\ obj[t].action.text \in ActionNames
                  => /\ Range(dm.draggedStrokes) \subseteq Range(Scene(World))
                        => ExecutedOn(t, dm.draggedStrokes)
                     /\ dm'.draggedStrokes = << >> ]_vars

\* C24: an action is executed at a drag release only if the release point
\* lies within 40 units of an actionable smart object that is another entity
\* than the members of the drag group: a dragged smart object's own action
\* is never applied to itself, and a hover recorded in an earlier gesture
\* triggers no action in a later one.
C24_ActionOnlyOnTarget ==
    [][ hist'.call.op \in ActionNames =>
          \E f \in DOMAIN env.touch :
              /\ DragReleasedBy(f)
              /\ dm.hoveredSmartObject \in ActionTargets(env.touch[f]) ]_vars

\* A sketch has been dropped on the deleting smart object and is gone.
SketchDeletedOnDrop ==
    /\ toast = "Deleted strokes"
    /\ Len(Scene(World)) = 1
    /\ SmartObjectsIn(obj, Scene(World)) = Range(Scene(World))

\* A smart object without an action lies over an actionable one and has been
\* dragged and released beside the centre: nothing was executed.
MaskedTarget ==
    /\ Len(Scene(World)) = 2
    /\ SmartObjectsIn(obj, Scene(World)) = Range(Scene(World))
    /\ Actionable(obj[Scene(World)[1]]) /\ obj[Scene(World)[1]].position = CanvasCentre
    /\ ~Actionable(obj[Scene(World)[2]]) /\ obj[Scene(World)[2]].position = BesideCentre
    /\ TouchesDown(World) = {} /\ ~dm.isDragging
    /\ toast = "Smart object created!"

\* The deleting smart object was dragged and has deleted itself.
SelfDeleted ==
    /\ toast = "Deleted strokes"
    /\ Scene(World) = << >>

\* A hover is left behind by a drag that ended in the drop zone.
StaleHover ==
    /\ dm.hoveredSmartObject # Null
    /\ ~dm.isDragging /\ TouchesDown(World) = {}

\* A sketch pressed and released where it lies was reflected by the stale hover.
StaleHoverActs ==
    /\ toast = "Reflected strokes"
    /\ hist.call.op = "reflect"
    /\ Len(hist.call.strokes) = 1
    /\ \A id \in Range(hist.call.strokes) :
           ~IsSmart(World, id) /\ obj[id].points[1] = SmartInkPt

-----------------------------------------------------------------------------
(* The size of a generated or edited image *)

\* The decoded widths and heights: landscape, portrait and square, with
\* sides for which 512 * h / w is a whole number, so that whole units are
\* exact.
SizeSides == { 1, 2, 4 }
SizeInputs == SizeSides \X SizeSides

SizeGenerated ==
    \E d \in DOMAIN tasks, bytes \in SizeInputs :
        /\ tasks[d].pc = "generating"
        /\ Step([clearAllSelections(onComplete(World, d, bytes)) EXCEPT !.tasks[d].pc = "decode"])

SizeEdited ==
    \E d \in DOMAIN tasks, bytes \in SizeInputs :
        /\ tasks[d].pc = "editing" /\ ~tasks[d].viaMenu
        /\ Step(clearAllSelections(onComplete(World, d, bytes)))

\* A finger lands while no dispatch is under way.
SizeTap == DOMAIN tasks = {} /\ TapDown

\* The frame callback of a finished dispatch ends its redraw loop.
SizeFrame == (\A d \in DOMAIN tasks : tasks[d].pc = "done") /\ Frame

SizeNext ==
    \/ FirstStylusDown \/ PenUp
    \/ SizeTap \/ DragToCorner \/ TouchUp
    \/ CaptureDone \/ PauseDone
    \/ ClassifiedGenerate \/ ClassifiedUpdate
    \/ SizeGenerated \/ SizeEdited
    \/ ImageLoaded \/ SizeFrame

SizeSpec == Init /\ [][SizeNext]_vars

\* The image of task d has loaded in this step.
LoadedStep(d) ==
    /\ tasks[d].pc = "decode"
    /\ d \in DOMAIN tasks' => tasks'[d].pc = "done"

\* C25: on a successful generation or edit, with the decoded width w and
\* height h: if w / h > 1 the image object gets width 512 and height
\* 512 * h / w, otherwise height 512 and width 512 * w / h; neither
\* dimension exceeds 512 and width / height equals w / h.
C25_SizeKeepsAspectRatio ==
    [][ \A d \in DOMAIN tasks :
          LoadedStep(d) =>
              LET iw == tasks[d].bytes[1]
                  ih == tasks[d].bytes[2]
                  img == obj'[tasks[d].img]
              IN  /\ tasks[d].img \in DOMAIN obj'
                  /\ iw > ih => img.width = GeneratedMaxSize
                                /\ img.height * iw = GeneratedMaxSize * ih
                  /\ iw <= ih => img.height = GeneratedMaxSize
                                 /\ img.width * ih = GeneratedMaxSize * iw
                  /\ img.width <= GeneratedMaxSize
                  /\ img.height <= GeneratedMaxSize
                  /\ img.width * ih = img.height * iw ]_vars

\* A generated image of decoded size 2 : 1 has loaded: 512 by 256.
C25_Witness ==
    /\ toast = "Image generated!"
    /\ \E id \in ImagesIn(obj, Scene(World)) :
           /\ obj[id].imageData = << 2, 1 >>
           /\ ~obj[id].isGenerating
           /\ obj[id].width = 512 /\ obj[id].height = 256

\* An edited image of decoded size 1 : 4 has loaded: 128 by 512.
PortraitEdited ==
    /\ toast = "Image updated!"
    /\ \E id \in ImagesIn(obj, Scene(World)) :
           /\ obj[id].imageData = << 1, 4 >>
           /\ obj[id].width = 128 /\ obj[id].height = 512

-----------------------------------------------------------------------------
(* The entity under a touch *)

\* Where the pen sketches and where a finger lands: on the canvas centre,
\* where the generated image lies, on a sketch away from it, on the image
\* only, and on nothing.
TopInkPts == { << 600, 200 >>, << 100, 100 >> }
TopPts == TopInkPts \cup { << 900, 300 >>, << 100, 300 >> }

TopPenDown ==
    /\ TouchesDown(World) = {} /\ DOMAIN tasks = {}
    /\ \E p \in TopInkPts : PenDownAt(p)

TopDown ==
    /\ ~env.pen /\ TouchesDown(World) = {} /\ DOMAIN tasks = {}
    /\ \E p \in TopPts : TouchDownAt(p)

\* The finger that holds the sketch away from the centre drags it to the corner.
TopDrag ==
    /\ ImagesIn(obj, Scene(World)) = {}
    /\ \E f \in TouchesDown(World) : env.touch[f] \in { << 100, 100 >>, << CanvasWidth, 0 >> }
    /\ DragToCorner

TopFrame == (\A d \in DOMAIN tasks : tasks[d].pc = "done") /\ Frame

TopNext ==
    \/ TopPenDown \/ PenUp
    \/ TopDown \/ TopDrag \/ TouchUp
    \/ PinchDispatch \/ TopFrame

TopSpec == Init /\ [][TopNext]_vars

\* The point hits the entity: an ink stroke by a point within 20 units, an
\* image object by its rectangle widened by 10 units on every side.
HitBy(e, point) ==
    IF e.type = "image-object"
    THEN /\ 2 * (point[1] - e.position[1]) <= e.width + 20
         /\ 2 * (e.position[1] - point[1]) <= e.width + 20
         /\ 2 * (point[2] - e.position[2]) <= e.height + 20
         /\ 2 * (e.position[2] - point[2]) <= e.height + 20
    ELSE \E q \in Range(e.points) : Dist2(point, q) <= 400

\* The places in the scene list of the entities the point hits.
PlacesHit(point) ==
    { i \in 1..Len(Scene(World)) : HitBy(obj[Scene(World)[i]], point) }

\* An entity without its selection flag.
Unflagged(e) == [e EXCEPT !.selected = FALSE]

\* C26: findStrokeAtPoint returns the entity with the highest list index
\* among those the point hits (an ink stroke with some point within 20
\* units, an image object whose rectangle widened by 10 units holds the
\* point) and null when none is hit; the search changes neither the scene
\* list nor an entity.
C26_TopmostEntityHit ==
    [][ \A f \in DOMAIN env.touch :
          env.touch[f] = NoPoint /\ env'.touch[f] # NoPoint =>
              LET hit == PlacesHit(env'.touch[f])
              IN  /\ hit = {} => dm'.selectedStroke = Null
                  /\ hit # {} => dm'.selectedStroke = Scene(World)[Max(hit)]
                  /\ arr'[dm'.strokes] = Scene(World)
                  /\ \A id \in Range(Scene(World)) :
                         Unflagged(obj'[id]) = Unflagged(obj[id]) ]_vars

\* A finger has landed where an ink stroke and the image above it are both
\* hit, and the image is the entity found.
C26_Witness ==
    \E f \in TouchesDown(World) :
        /\ Len(Scene(World)) = 2
        /\ PlacesHit(env.touch[f]) = { 1, 2 }
        /\ IsImage(World, Scene(World)[2]) /\ ~IsImage(World, Scene(World)[1])
        /\ dm.selectedStroke = Scene(World)[2]

\* A finger has landed where the image and the ink stroke above it are both hit.
InkAboveImage ==
    \E f \in TouchesDown(World) :
        /\ Len(Scene(World)) = 2
        /\ PlacesHit(env.touch[f]) = { 1, 2 }
        /\ IsImage(World, Scene(World)[1]) /\ ~IsImage(World, Scene(World)[2])
        /\ dm.selectedStroke = Scene(World)[2]

\* A finger has landed on nothing.
NothingHit ==
    \E f \in TouchesDown(World) :
        /\ Scene(World) # << >>
        /\ PlacesHit(env.touch[f]) = {}
        /\ dm.selectedStroke = Null

-----------------------------------------------------------------------------
(* A sketch that becomes a smart object, with an undo or a clear between
   the drop in the corner and the reply *)

\* Where the two fingers of the undo gesture land, on empty canvas.
UndoLandings == << << 900, 300 >>, << 1000, 300 >> >>

\* The pressures the strokes held anywhere in the program were drawn with.
PressuresUsed(o) ==
    UNION { Range(o[id].pressures) : id \in { i \in DOMAIN o : o[i].type = "pen" } }

\* The pen sketches at one place, each sketch with a pressure of its own,
\* before the dispatch.
SketchPen ==
    /\ ~env.pen /\ TouchesDown(World) = {}
    /\ Len(Scene(World)) < MaxStrokes
    /\ toast = ""
    /\ LET pr == Min((1..(MaxSmartSnapshots + 1)) \ PressuresUsed(obj))
       IN  SmartStep(handlePointerDownSmart([World EXCEPT !.env.pen = TRUE],
                                            "pen", SmartInkPt, pr))

\* A finger presses the sketch where it was drawn, for the one dispatch.
SketchPress ==
    /\ ~env.pen /\ TouchesDown(World) = {} /\ toast = ""
    /\ findStrokeAtPointSmart(World, SmartInkPt) # Null
    /\ SmartStep(handlePointerDownSmart([World EXCEPT !.env.touch[1] = SmartInkPt],
                                        "touch", SmartInkPt, 0))

SketchDrag ==
    /\ TouchesDown(World) = { 1 } /\ dm.isDragging
    /\ SmartStep(handlePointerMoveSmart([World EXCEPT !.env.touch[1] = << CanvasWidth, 0 >>],
                                        "touch", << CanvasWidth, 0 >>, 0))

SketchDrop ==
    /\ TouchesDown(World) = { 1 } /\ dm.isDragging
    /\ SmartStep(handlePointerUpSmart([World EXCEPT !.env.touch[1] = NoPoint]))

\* The fingers of the undo gesture land one after the other while a reply
\* is awaited.
SketchUndoDown ==
    /\ ~env.pen /\ DOMAIN tasks # {}
    /\ \E f \in 1..2 :
          /\ TouchesDown(World) = 1..(f - 1)
          /\ SmartStep(handlePointerDownSmart([World EXCEPT !.env.touch[f] = UndoLandings[f]],
                                              "touch", UndoLandings[f], 0))

\* Both fingers are lifted together: two pointerup events, then one touchend
\* with two changed touches, which undoes.
SketchUndoUp ==
    /\ TouchesDown(World) = { 1, 2 } /\ ~dm.isDragging
    /\ LET up1 == handlePointerUpSmart([World EXCEPT !.env.touch[1] = NoPoint])
           up2 == handlePointerUpSmart([up1 EXCEPT !.env.touch[2] = NoPoint])
       IN  SmartStep(handleTouchEnd(up2, 2))

\* The clear button, while a reply is awaited.
SketchClear ==
    /\ ~env.pen /\ TouchesDown(World) = {} /\ DOMAIN tasks # {}
    /\ Scene(World) # << >>
    /\ SmartStep(clearCanvas(World))

SketchNext ==
    \/ SketchPen \/ SmartPenUp
    \/ SketchPress \/ SketchDrag \/ SketchDrop
    \/ SketchUndoDown \/ SketchUndoUp \/ SketchClear
    \/ SmartPause \/ SmartReply

SketchSpec == Init /\ [][SketchNext]_vars


\* Two records of one sketch: the same pen data, wherever a drag has taken
\* the one or the other (an undo snapshot holds copies of the strokes).
SameSketch(a, b) ==
    /\ a.type = "pen" /\ b.type = "pen"
    /\ a.pressures = b.pressures /\ a.tilts = b.tilts
    /\ Len(a.points) = Len(b.points)
    /\ \A j \in 1..Len(a.points) :
           a.points[j][1] - a.points[1][1] = b.points[j][1] - b.points[1][1]
           /\ a.points[j][2] - a.points[1][2] = b.points[j][2] - b.points[1][2]

\* The reply of task d has arrived in this step and was a success.
SmartCreatedStep(d) ==
    /\ tasks[d].pc = "smart-classify"
    /\ toast' = "Smart object created!"

SceneAfterStep == arr'[dm'.strokes]

\* C27: after a successful classification of a captured group none of the
\* group's strokes remains in the scene and exactly one new smart object has
\* been appended, also when the user has undone or otherwise changed the
\* scene between the drop in the corner and the arrival of the reply.
C27_SketchReplaced ==
    [][ \A d \in DOMAIN tasks :
          SmartCreatedStep(d) =>
              /\ \A g \in Range(tasks[d].group), id \in Range(SceneAfterStep) :
                     id # g /\ ~SameSketch(obj[g], obj'[id])
              /\ SceneAfterStep # << >>
              /\ LET new == SceneAfterStep[Len(SceneAfterStep)]
                 IN  /\ new \notin DOMAIN obj
                     /\ obj'[new].type = "smart-object"
                     /\ SubSeq(SceneAfterStep, 1, Len(SceneAfterStep) - 1)
                            = RemoveEach(Scene(World), tasks[d].group) ]_vars

\* The sketch was replaced by a smart object with no change in between.
SketchReplaced ==
    /\ toast = "Smart object created!"
    /\ Len(Scene(World)) = 2
    /\ ~IsSmart(World, Scene(World)[1]) /\ IsSmart(World, Scene(World)[2])
    /\ undoManager.position = 3

\* After an undo between the drop and the reply the sketch is still in the
\* scene, beside the smart object made of it.
SketchStillThere ==
    /\ toast = "Smart object created!"
    /\ Len(Scene(World)) = 2
    /\ ~IsSmart(World, Scene(World)[1]) /\ IsSmart(World, Scene(World)[2])
    /\ undoManager.position = 2
    /\ Len(undoManager.stack) = 3

-----------------------------------------------------------------------------
(* The pinch on an image and on a selected ink stroke, move after move *)

\* Where the two fingers land on the stroke drawn from (300,200) to
\* (340,200), and where the second one moves to: the touches are 20 units
\* apart at the start, then 40 and 60.
ScaleLandings == << << 310, 200 >>, << 330, 200 >> >>
ScaleMoves == { << 350, 200 >>, << 370, 200 >> }

\* The width of an ink stroke's bounding box.
ExtentX(e) ==
    LET xs == { e.points[j][1] : j \in 1..Len(e.points) }
    IN  Max(xs) - Min(xs)

ScaleMaxExtent == 500

\* The fingers land on the stroke, one after the other.
ScaleInkDown ==
    /\ ~env.pen /\ ImagesIn(obj, Scene(World)) = {}
    /\ Len(Scene(World)) = 1 /\ AsDrawn(World)
    /\ \E f \in 1..2 :
          /\ TouchesDown(World) = 1..(f - 1)
          /\ \A g \in 1..(f - 1) : env.touch[g] = ScaleLandings[g]
          /\ TouchDownAt(ScaleLandings[f])

\* The second finger moves, or reports the place it is at once more.
ScaleInkMove ==
    /\ TouchesDown(World) = { 1, 2 } /\ ImagesIn(obj, Scene(World)) = {}
    /\ env.touch[1] = ScaleLandings[1]
    /\ \A id \in Range(Scene(World)) : ExtentX(obj[id]) <= ScaleMaxExtent
    /\ \E p \in ScaleMoves : TouchMoveTo(2, p)

\* The finger that holds the sketch drags it to the corner.
ScaleDrag == OneTouch /\ PinchDrag

ScaleNext ==
    \/ FirstStylusDown \/ PenUp
    \/ StrokeDown \/ StrokeMove
    \/ PinchTap \/ ScaleDrag \/ PinchUp
    \/ PinchDispatch
    \/ PinchDown \/ PinchMove
    \/ ScaleInkDown \/ ScaleInkMove

ScaleSpec == Init /\ [][ScaleNext]_vars

\* A step with the pinch under way before and after it, both touches down,
\* that is no step of a dispatch.
PinchHeldStep ==
    /\ dm.isScaling /\ dm'.isScaling
    /\ dm.scaleTarget # Null /\ dm'.scaleTarget = dm.scaleTarget
    /\ TouchesDown(World) = { 1, 2 } /\ TouchesDown(World') = { 1, 2 }
    /\ tasks' = tasks

\* C28: during a pinch, after each two-touch move the target's size is its
\* size at the start of the pinch multiplied by the current distance of the
\* touches over their initial distance (between 50 and 1000 for an image
\* object): from move to move the size of an ink stroke goes as the
\* distance goes, and a move at an unchanged distance leaves the target as
\* it is.  For image targets and for selected ink strokes alike.
C28_SizeFollowsPinchDistance ==
    [][ PinchHeldStep =>
          LET t == dm.scaleTarget
              before == Dist(env.touch[1], env.touch[2])
              after == Dist(env'.touch[1], env'.touch[2])
          IN  IF IsImage(World, t)
              THEN /\ obj'[t].width =
                          Clamp((dm.scaleStartWidth * after) \div dm.scaleStartDistance)
                   /\ obj'[t].height =
                          Clamp((dm.scaleStartHeight * after) \div dm.scaleStartDistance)
              ELSE /\ obj[t].selected =>
                          ExtentX(obj'[t]) * before = ExtentX(obj[t]) * after
                   /\ after = before => ExtentX(obj'[t]) = ExtentX(obj[t]) ]_vars

\* The stroke, 40 units long as drawn, is 80 units long after the first move
\* of a pinch to twice the distance.
FirstMoveDoubles ==
    /\ dm.isScaling /\ TouchesDown(World) = { 1, 2 }
    /\ dm.scaleStartDistance = 20 /\ env.touch[2] = << 350, 200 >>
    /\ ~IsImage(World, dm.scaleTarget)
    /\ ExtentX(obj[dm.scaleTarget]) = 80

\* The same stroke after a second move at the same place: 160 units long.
SecondMoveDoublesAgain ==
    /\ dm.isScaling /\ TouchesDown(World) = { 1, 2 }
    /\ dm.scaleStartDistance = 20 /\ env.touch[2] = << 350, 200 >>
    /\ ~IsImage(World, dm.scaleTarget)
    /\ ExtentX(obj[dm.scaleTarget]) = 160

-----------------------------------------------------------------------------
(* The end of a pinch: one finger lifts, or both lift together *)

\* Both fingers of the pinch are lifted in one touchend event.
PinchBothUp == dm.isScaling /\ TwoTouchUp /\ Saved(World')

PinchEndNext ==
    \/ FirstStylusDown \/ PenUp
    \/ PinchTap \/ PinchDrag \/ PinchUp \/ PinchBothUp
    \/ PinchDispatch
    \/ PinchDown \/ PinchMove

PinchEndSpec == Init /\ [][PinchEndNext]_vars

\* The pinch ends in this step: fewer than two touches are left.
PinchEndStep ==
    /\ dm.isScaling /\ dm.scaleTarget # Null
    /\ Cardinality(TouchesDown(World)) = 2
    /\ Cardinality(TouchesDown(World')) < 2

\* C29: when a pinch ends because fewer than two touches are left, exactly
\* one undo snapshot is committed, it records the scaled size, and the live
\* scene keeps the scaled size; also when both fingers lift in one
\* touch-end event.
C29_PinchEndCommitsScaledSize ==
    [][ PinchEndStep /\ dm.scaleTarget \in ImagesIn(obj, Scene(World)) =>
          LET t == dm.scaleTarget
              i == IndexOf(Scene(World), t)
              pos == undoManager.position
              new == undoManager'.stack[Len(undoManager'.stack)]
              SizeKept(s) == /\ Len(s) >= i
                             /\ obj'[s[i]].type = "image-object"
                             /\ obj'[s[i]].width = obj[t].width
                             /\ obj'[s[i]].height = obj[t].height
          IN  /\ undoManager'.position = pos + 1
              /\ Len(undoManager'.stack) = pos + 2
              /\ SubSeq(undoManager'.stack, 1, pos + 1) = SubSeq(undoManager.stack, 1, pos + 1)
              /\ new \notin Range(undoManager.stack)
              /\ SizeKept(arr'[new])
              /\ SizeKept(arr'[dm'.strokes]) ]_vars

\* One finger of the pinch was lifted: the image, pinched to 50 by 50, is in
\* the scene and in the newest snapshot at that size.
OneFingerEndsPinch ==
    /\ ~dm.isScaling /\ Cardinality(TouchesDown(World)) = 1
    /\ undoManager.position = 3
    /\ \E id \in ImagesIn(obj, Scene(World)) : obj[id].width = MinSize
    /\ \E id \in ImagesIn(obj, arr[undoManager.stack[4]]) : obj[id].width = MinSize

\* Both fingers were lifted together: the undo has run before the pinch
\* ended, and the scene holds the sketch again instead of the image.
BothFingersEndPinch ==
    /\ ~dm.isScaling /\ TouchesDown(World) = {}
    /\ toast = "Undo"
    /\ Len(undoManager.stack) = 3 /\ undoManager.position = 2
    /\ ImagesIn(obj, Scene(World)) = {}
    /\ Scene(World) # << >>

-----------------------------------------------------------------------------
(* A dispatch whose classification fails or names no known action *)

KnownActionTypes ==
    { JSONstring("generate"), JSONstring("update"), JSONstring("execute_action") }

\* The reply parses to an object whose action_type the switch does not know.
UnknownType(content) ==
    LET action == analyzeAction(content)
        type == Get(action.value, "action_type")
    IN  ~action.threw /\ ~type.threw /\ type.value \notin KnownActionTypes

\* The classification of task d ends in this step, by an exception or with
\* an action type outside the switch (a finished task leaves the task table).
ClassifiedNothing(d) ==
    /\ tasks[d].pc = "classify"
    /\ d \in DOMAIN tasks' => tasks'[d].pc = "done"
    /\ \/ toast' = "Processing failed"
       \/ /\ hist'.call.op = "analyzeAction"
          /\ UnknownType(Replies[hist'.call.strokeIds[1]])

\* C30: if the classification of a dispatch fails, or returns an action
\* type other than generate, update or execute_action, no entity of the
\* captured group has been removed from the scene list.
C30_FailedClassificationKeepsScene ==
    [][\A d \in DOMAIN tasks :
          ClassifiedNothing(d) =>
              \A i \in 1..Len(tasks[d].group) :
                  tasks[d].group[i] \in Range(arr'[dm'.strokes]) ]_vars

\* The classification of an ink-only group has failed: the sketch that was
\* drawn and dispatched is gone.
SketchLostOnFailure ==
    /\ tasks = << >> /\ toast = "Processing failed"
    /\ Len(undoManager.stack) = 2
    /\ Scene(World) = << >>

\* The reply named no known action for an ink-only group: the sketch is gone.
SketchLostOnUnknownType ==
    /\ tasks = << >>
    /\ hist.call.op = "analyzeAction"
    /\ UnknownType(Replies[hist.call.strokeIds[1]])
    /\ Len(undoManager.stack) = 2
    /\ Scene(World) = << >>

\* The classification of an image-only group has failed: the image stays.
ImageKeptOnFailure ==
    /\ toast = "Processing failed"
    /\ ImagesIn(obj, Scene(World)) # {}
-----------------------------------------------------------------------------
(* A finger on the glass while the pen draws *)

\* Where the pen starts a stroke, and how far a move takes it.
DrawStarts == { << 300, 200 >>, << 100, 100 >> }
DrawReach == 40

\* Where a finger lands while the pen is down (on the first stroke's first
\* point, or on empty canvas), and where it then moves to.
BesidePts == { << 300, 200 >>, << 500, 300 >> }
BesideAway == << 520, 300 >>

DrawDown == \E p \in DrawStarts : PenDownAt(p)

DrawMove ==
    /\ dm.currentStroke # NoStroke /\ Len(dm.currentStroke.points) = 1
    /\ PenMoveTo(Shift(dm.currentStroke.points[1], DrawReach, 0))

DrawPenUp == PenUp /\ Saved(World')

BesideDown ==
    /\ env.pen /\ TouchesDown(World) = {}
    /\ \E p \in BesidePts : TouchDownAt(p)

BesideMove ==
    \E f \in TouchesDown(World) :
        env.touch[f] # BesideAway /\ TouchMoveTo(f, BesideAway)

BesideUp == TouchUp /\ Saved(World')

BesideCancel == TouchCancel /\ Saved(World')

BesideNext ==
    \/ DrawDown \/ DrawMove \/ DrawPenUp
    \/ BesideDown \/ BesideMove \/ BesideUp \/ BesideCancel

BesideSpec == Init /\ [][BesideNext]_vars

\* A touch pointer event (down, move, up or cancel) while the pen stays
\* down and a stroke is being drawn.
TouchEventWhileDrawing ==
    /\ dm.isDrawing /\ env.pen /\ env'.pen
    /\ env'.touch # env.touch

\* C31: while a pen stroke is being drawn, touch pointer events leave the
\* current stroke and isDrawing unchanged, and the stroke is committed only
\* by the pen's own pointer-up or pointer-cancel.
C31_TouchLeavesStrokeAlone ==
    [][ /\ TouchEventWhileDrawing =>
              /\ dm'.isDrawing
              /\ dm'.currentStroke = dm.currentStroke
        /\ (dm.isDrawing /\ ~dm'.isDrawing) => (env.pen /\ ~env'.pen) ]_vars

\* A finger was lifted while the pen was drawing: the stroke is in the scene
\* with one point, the pen is still down and nothing is being drawn.
CommittedByTouchUp ==
    /\ env.pen /\ TouchesDown(World) = {}
    /\ ~dm.isDrawing /\ dm.currentStroke = NoStroke
    /\ Len(Scene(World)) = 1
    /\ Len(obj[Scene(World)[1]].points) = 1

\* The pen was lifted while a finger held an earlier stroke: the stroke
\* being drawn is still not committed.
PenUpLeavesStrokeOpen ==
    /\ ~env.pen /\ dm.isDrawing /\ dm.currentStroke # NoStroke
    /\ dm.isDragging

-----------------------------------------------------------------------------
(* A gesture begun while a dispatch is pending *)

\* A continuation of task d runs in this step: no input event, and the task
\* moves on or ends.
ContinuationStep(d) ==
    /\ env' = env
    /\ d \in DOMAIN tasks' => tasks'[d].pc # tasks[d].pc

\* A finger holds or drags a group none of whose entities task d captured:
\* a gesture the user started after the dispatch.
LaterGesture(d) ==
    /\ TouchesDown(World) # {}
    /\ dm.isDragging \/ dm.isLongTapping
    /\ dm.draggedStrokes # << >>
    /\ Range(dm.draggedStrokes) \cap Range(tasks[d].group) = {}

\* C32: the completion of an async dispatch changes neither draggedStrokes,
\* selectedStroke, selectedStrokes nor a selected flag of a gesture the user
\* started after the dispatch.
C32_CompletionLeavesLaterGesture ==
    [][\A d \in DOMAIN tasks :
          (ContinuationStep(d) /\ LaterGesture(d)) =>
              /\ dm'.draggedStrokes = dm.draggedStrokes
              /\ dm'.selectedStroke = dm.selectedStroke
              /\ dm'.selectedStrokes = dm.selectedStrokes
              /\ \A id \in Range(dm.draggedStrokes) :
                     obj'[id].selected = obj[id].selected ]_vars

\* A completion has arrived in the middle of a drag: the finger is down, the
\* drag flag is set, and the drag has lost its group and its stroke.
DragEmptiedByCompletion ==
    /\ TouchesDown(World) # {} /\ dm.isDragging
    /\ dm.draggedStrokes = << >> /\ dm.selectedStroke = Null
    /\ toast \in { "Processing failed", "Image generation failed" }
    /\ Len(Scene(World)) = 1

-----------------------------------------------------------------------------
(* Strokes and undo while the image call is in flight *)

\* Where the pen draws while the placeholder is generating, off the
\* placeholder.
FlightInkPt == << 100, 100 >>

\* The one dispatch: the sketch is pressed and dragged to the corner.
FlightTap ==
    /\ DOMAIN tasks = {} /\ Len(undoManager.stack) = 2
    /\ ImagesIn(obj, Scene(World)) = {}
    /\ TapDown

FlightDrag == (dm.isLongTapping \/ dm.isDragging) /\ DragToCorner

FlightDrop == dm.isDragging /\ TouchUp

\* The pen commits a stroke while the image call is in flight.
FlightPenDown ==
    /\ TouchesDown(World) = {}
    /\ \E d \in DOMAIN tasks : tasks[d].pc = "generating"
    /\ PenDownAt(FlightInkPt)

FlightPenUp == PenUp /\ Saved(World')

\* The two fingers of the undo gesture land on empty canvas, once a stroke
\* has been committed beside the placeholder.
FlightUndoDown ==
    /\ ~env.pen /\ Len(undoManager.stack) >= 3
    /\ \E f \in 1..2 :
          /\ TouchesDown(World) = 1..(f - 1)
          /\ \A g \in 1..(f - 1) : env.touch[g] = UndoLandings[g]
          /\ TouchDownAt(UndoLandings[f])

FlightUndoUp ==
    /\ \A f \in 1..2 : env.touch[f] = UndoLandings[f]
    /\ TwoTouchUp

FlightNext ==
    \/ FirstStylusDown \/ FlightPenDown \/ FlightPenUp
    \/ FlightTap \/ FlightDrag \/ FlightDrop
    \/ FlightUndoDown \/ FlightUndoUp
    \/ CaptureDone \/ PauseDone \/ ClassifiedGenerate
    \/ GenerateSucceeded \/ GenerateFailed \/ ImageLoaded \/ Frame

FlightSpec == Init /\ [][FlightNext]_vars

\* An await of the dispatch is pending: its continuation can run.
AwaitPending ==
    \E d \in DOMAIN tasks :
        tasks[d].pc \in { "capture", "pause", "classify", "generating", "editing",
                        "decode" }

\* A continuation of the dispatch runs in this step.
Continued ==
    \E d \in DOMAIN tasks : d \in DOMAIN tasks' => tasks'[d].pc # tasks[d].pc

\* A frame callback is due that will not just ask for the next frame.
LastFrameDue ==
    \E d \in DOMAIN tasks :
        tasks[d].raf # 0 /\ animateGeneration(World, d).tasks[d].raf # tasks[d].raf

\* A frame callback runs in this step.
Framed ==
    \E d \in DOMAIN tasks : d \in DOMAIN tasks' => tasks'[d].raf # tasks[d].raf

\* Every external call eventually returns or fails and its continuation
\* runs, and every frame callback that is due eventually runs: weak
\* fairness of the continuations and of the frame callbacks, with their
\* enabling conditions written out.
FlightFair ==
    /\ FlightSpec
    /\ []<>(~AwaitPending) \/ []<><<Continued>>_vars
    /\ []<>(~LastFrameDue) \/ []<><<Framed>>_vars

\* The scene holds an image object that is generating.
GeneratingInScene ==
    \E id \in ImagesIn(obj, Scene(World)) : obj[id].isGenerating

\* The scenario has one dispatch: the scene never holds two image objects,
\* and the scene changes only finitely often (each change is a save, an
\* undo or a step of the one dispatch), so an image object generating for
\* ever is the same as the scene for ever holding a generating one.
OneImageAtMost == Cardinality(ImagesIn(obj, Scene(World))) <= 1

\* The same as a liveness property under FlightFair: a generating image
\* object in the scene leads to a scene without one.
GeneratingEnds == GeneratingInScene ~> ~GeneratingInScene

\* Nothing is left to run: every external call has returned, every
\* continuation and every frame callback that was due has run.
AtRest == ~AwaitPending /\ ~LastFrameDue

\* C33: every image object that is in the scene with isGenerating = true
\* eventually has isGenerating = false or is absent from the scene, also
\* when strokes are committed and undone while the call is in flight: once
\* every call has returned and nothing is left to run, the scene holds no
\* image object that is still generating (it would stay so for ever).
C33_NoGeneratingAtRest == AtRest => ~GeneratingInScene

\* An undo has brought back the snapshot taken while the call was in
\* flight: the call has completed, no task is left, and the scene holds a
\* placeholder that is still generating.
PlaceholderRestoredGenerating ==
    /\ DOMAIN tasks = {} /\ toast = "Undo"
    /\ GeneratingInScene

-----------------------------------------------------------------------------
(* Two dispatches in flight for one image: long presses while an edit is
   pending *)

MaxPairTasks == 2
MaxPairSnapshots == 4

\* Where the sketch is drawn and pressed, and where the image is pressed.
PairPts == { << 600, 0 >>, CanvasCentre }

PairFits(w) ==
    /\ Len(w.undoManager.stack) <= MaxPairSnapshots + 1
    /\ DOMAIN w.timers \subseteq 1..MaxTimers
    /\ DOMAIN w.tasks \subseteq 1..MaxPairTasks
    /\ Len(Scene(w)) <= MaxStrokes

PairStep(w) == PairFits(w) /\ HistoryStep(w)

\* The pen draws the sketch.
PairPenDown ==
    /\ ~env.pen /\ TouchesDown(World) = {} /\ Len(undoManager.stack) = 1
    /\ PairStep(handlePointerDown([World EXCEPT !.env.pen = TRUE], "pen", << 600, 0 >>, 8, 0))

PairPenUp ==
    /\ env.pen
    /\ PairStep(handlePointerUp([World EXCEPT !.env.pen = FALSE]))

\* A finger presses the sketch, or the image once it has been loaded: while
\* no dispatch is pending, or while the edit call of one dispatch is in
\* flight.
PairPress ==
    /\ ~env.pen /\ TouchesDown(World) = {}
    /\ \A d \in DOMAIN tasks : tasks[d].pc = "editing" /\ tasks[d].raf = 1
    /\ Cardinality(DOMAIN tasks) <= 1
    /\ \E p \in PairPts :
          /\ findStrokeAtPoint(World, p) # Null
          /\ PairStep(onTouchStart(handlePointerDown(Landed(World, 1, p), "touch", p, 0, 1)))

PairProgressTimer ==
    \E t \in DOMAIN timers :
        /\ timers[t].kind = "progress" /\ Due(t)
        /\ PairStep(startProgressAnimation(
               [Fired(World, t) EXCEPT !.dm.showLongTapProgress = TRUE]))

\* The 3000 ms timer of the press: the dispatch.
PairLongTapTimer ==
    \E t \in DOMAIN timers :
        /\ timers[t].kind = "ai" /\ Due(t)
        /\ PairStep(triggerLongTapAI(Fired(World, t)))

\* The finger is lifted after the dispatch.
PairLift ==
    \E f \in TouchesDown(World) :
        /\ ~dm.isLongTapping
        /\ PairStep(onTouchEnd(handleTouchEnd(handlePointerUp(Lifted(World, f)), 1)))

PairCaptureDone ==
    \E d \in DOMAIN tasks :
        /\ tasks[d].pc = "capture"
        /\ PairStep([World EXCEPT !.tasks[d].pc = "pause", !.toast = "Analyzing..."])

PairPauseDone ==
    \E d \in DOMAIN tasks :
        /\ tasks[d].pc = "pause"
        /\ PairStep(SetTask(World, d, "pc", "classify"))

\* The classification: generate for the sketch, update for the image.
PairClassified ==
    \E d \in DOMAIN tasks :
        /\ tasks[d].pc = "classify"
        /\ PairStep(IF hasImages(World, tasks[d].group)
                    THEN updateExistingImage(World, d, tasks[d].group)
                    ELSE generateNewImage(World, d))

PairGenerated ==
    \E d \in DOMAIN tasks :
        /\ tasks[d].pc = "generating"
        /\ PairStep([clearAllSelections(onComplete(World, d, << 1, 1 >>)) EXCEPT
                        !.tasks[d].pc = "decode"])

PairEdited ==
    \E d \in DOMAIN tasks :
        /\ tasks[d].pc = "editing"
        /\ PairStep(clearAllSelections(onComplete(World, d, << 1, 1 >>)))

PairEditFailed ==
    \E d \in DOMAIN tasks :
        /\ tasks[d].pc = "editing"
        /\ PairStep(finishUpload(editFailed(World, d), d, "failed"))

PairLoaded ==
    \E d \in DOMAIN tasks :
        /\ tasks[d].pc = "decode"
        /\ PairStep(onImageLoad(World, d))

PairFrame ==
    \E d \in DOMAIN tasks :
        /\ tasks[d].raf # 0
        /\ PairStep(animateGeneration(World, d))

PairNext ==
    \/ PairPenDown \/ PairPenUp
    \/ PairPress \/ PairProgressTimer \/ PairLongTapTimer \/ PairLift
    \/ PairCaptureDone \/ PairPauseDone \/ PairClassified
    \/ PairGenerated \/ PairEdited \/ PairEditFailed \/ PairLoaded \/ PairFrame

PairSpec == Init /\ [][PairNext]_vars

\* The external call of task d is in flight.
InFlight(d) == tasks[d].pc \in { "generating", "editing" }

\* C34: while an external generate or edit call targeting an image object is
\* in flight, that object's isGenerating is true, also when two dispatches
\* target the same image and one of them has completed or failed.
C34_GeneratingWhileInFlight ==
    \A d \in DOMAIN tasks : InFlight(d) => obj[tasks[d].img].isGenerating

\* Two edit calls are in flight for the one image, which is generating.
TwoCallsOneImage ==
    /\ DOMAIN tasks = { 1, 2 }
    /\ InFlight(1) /\ InFlight(2)
    /\ tasks[1].img = tasks[2].img
    /\ obj[tasks[1].img].isGenerating

\* One of the two calls has returned and the other is still in flight: the
\* image is in the scene, no longer generating.
FlagClearedByOtherCall ==
    \E d \in DOMAIN tasks :
        /\ InFlight(d)
        /\ tasks[d].img \in Range(Scene(World))
        /\ ~obj[tasks[d].img].isGenerating

-----------------------------------------------------------------------------
(* The newest snapshot and the live scene: a stroke drawn, dragged, pinched
   and undone *)

KeepNext ==
    \/ StrokeDown \/ StrokeMove \/ StrokeUp
    \/ StrokeTouchDown \/ StrokeTouchMove \/ StrokeTouchUp \/ StrokeUndo

KeepSpec == Init /\ [][KeepNext]_vars

\* The router is idle and nothing is on the glass.
RouterIdle ==
    /\ ~env.pen /\ TouchesDown(World) = {}
    /\ ActiveGestures(World) = {}

\* The item of the undo history at its position: the most recent snapshot
\* (the initial item, null, stands for the empty scene).
NewestSnapshot ==
    LET item == undoManager.stack[undoManager.position + 1]
    IN  IF item = Null THEN << >> ELSE arr[item]

\* Two entities agree on what a snapshot records of their geometry.
SameGeometry(a, b) ==
    /\ a.type = b.type
    /\ IF a.type = "image-object"
       THEN a.position = b.position /\ a.width = b.width /\ a.height = b.height
       ELSE a.points = b.points

\* C35: whenever the router is idle and no dispatch is in flight, the most
\* recent undo snapshot agrees with the live scene on the entity list and on
\* every entity's points, position, width and height.
C35_SnapshotAgreesWithScene ==
    (RouterIdle /\ DOMAIN tasks = {}) =>
        /\ Len(NewestSnapshot) = Len(Scene(World))
        /\ \A i \in 1..Len(Scene(World)) :
               SameGeometry(obj[NewestSnapshot[i]], obj[Scene(World)[i]])

\* The stroke has been dragged and the finger lifted: the scene holds it
\* where it was dragged to, the newest snapshot where it was drawn.
DragNotRecorded ==
    /\ RouterIdle /\ toast = ""
    /\ Len(Scene(World)) = 1 /\ Len(NewestSnapshot) = 1
    /\ obj[Scene(World)[1]].points[1] = << 400, 200 >>
    /\ obj[NewestSnapshot[1]].points[1] = << 300, 200 >>

\* One undo after the completed drag: the history is back at its initial
\* item and the scene is empty, the stroke is gone.
UndoAfterDragRemovesStroke ==
    /\ RouterIdle /\ toast = "Undo"
    /\ undoManager.position = 0 /\ Len(undoManager.stack) = 2
    /\ Scene(World) = << >>

-----------------------------------------------------------------------------
(* The selection and the drag group against the scene list *)

\* C36: in every reachable state every member of selectedStrokes and of
\* draggedStrokes is an element of the current scene list.
C36_GroupsWithinScene ==
    /\ Range(dm.selectedStrokes) \subseteq Range(Scene(World))
    /\ Range(dm.draggedStrokes) \subseteq Range(Scene(World))

\* A sketch has been dropped on the corner: the dispatch has taken it out of
\* the scene, and it still is the manager's drag group.
DispatchedInkStillDragGroup ==
    /\ DOMAIN tasks # {} /\ TouchesDown(World) = {}
    /\ dm.draggedStrokes # << >>
    /\ Scene(World) = << >>
    /\ \A i \in 1..Len(dm.draggedStrokes) : ~IsImage(World, dm.draggedStrokes[i])

-----------------------------------------------------------------------------
(* The selected flags against the lasso selection *)

\* C37: whenever the router is idle, an entity of the scene has
\* selected = true if and only if it is a member of selectedStrokes.
C37_SelectedFlagMatchesSelection ==
    RouterIdle =>
        \A id \in Range(Scene(World)) :
            obj[id].selected <=> id \in Range(dm.selectedStrokes)

\* The stroke has been dragged alone and the finger lifted: it is
\* highlighted, and the lasso selection is empty.
HighlightedOutsideSelection ==
    /\ RouterIdle /\ toast = ""
    /\ dm.selectedStrokes = << >>
    /\ Len(Scene(World)) = 1
    /\ obj[Scene(World)[1]].selected
    /\ obj[Scene(World)[1]].points[1] = << 400, 200 >>

-----------------------------------------------------------------------------
(* The hit test against the order of painting *)

\* redraw paints every image object first and every ink stroke after them:
\* the places of the scene list in the order in which they are painted.
PaintedAbove(i, j) ==
    LET s == Scene(World)
    IN  \/ ~IsImage(World, s[i]) /\ IsImage(World, s[j])
        \/ IsImage(World, s[i]) = IsImage(World, s[j]) /\ i > j

\* C38: the hit test agrees with the rendering order: when a point hits both
\* an ink stroke and an image object, findStrokeAtPoint returns the ink
\* stroke, which redraw paints on top of every image object, whatever their
\* order in the scene list.
C38_HitTestFollowsPainting ==
    [][ \A f \in DOMAIN env.touch :
          env.touch[f] = NoPoint /\ env'.touch[f] # NoPoint =>
              LET hit == PlacesHit(env'.touch[f])
              IN  \A i \in hit :
                      (\A j \in hit \ { i } : PaintedAbove(i, j)) =>
                          dm'.selectedStroke = Scene(World)[i] ]_vars

\* A finger has landed where an ink stroke lies on the image: the ink is
\* painted on top, the image, later in the list, is the entity found.
ImageFoundUnderInk ==
    \E f \in TouchesDown(World) :
        /\ PlacesHit(env.touch[f]) = { 1, 2 }
        /\ PaintedAbove(1, 2)
        /\ dm.selectedStroke = Scene(World)[2]

-----------------------------------------------------------------------------
(* The pressures a stroke stores *)

\* What the pen events report: no pressure, a pressure of 0, a light and
\* the full pressure (in tenths).
PressureInputs == { NoPressure, 0, 3, 10 }

\* The pressure the pen event of the last step has reported.
Reported(pressure) == [op |-> "pen", strokeIds |-> << pressure >>, strokes |-> << >>]

PressurePenDown ==
    /\ ~env.pen /\ Len(Scene(World)) < MaxStrokes
    /\ \E pr \in PressureInputs :
          Step([handlePointerDown([World EXCEPT !.env.pen = TRUE],
                                  "pen", << 300, 200 >>, pr, 0)
                  EXCEPT !.hist.call = Reported(pr)])

PressurePenMove ==
    /\ env.pen /\ dm.currentStroke # NoStroke
    /\ \E pr \in PressureInputs :
          Step([handlePointerMove(World, "pen", << 340, 200 >>, pr)
                  EXCEPT !.hist.call = Reported(pr)])

PressurePenUp == PenUp /\ Saved(World')

PressureNext == PressurePenDown \/ PressurePenMove \/ PressurePenUp

PressureSpec == Init /\ [][PressureNext]_vars

\* The pressure stored last in the stroke being drawn.
LastStored == dm.currentStroke.pressures[Len(dm.currentStroke.pressures)]

\* C39: every pressure stored in a stroke equals the pressure reported by
\* its pen event whenever the event reports one, a reported pressure of 0
\* included, and is 0.5 only when the event reports no pressure.
C39_StoredPressureIsReported ==
    hist.call.op = "pen" =>
        LET reported == hist.call.strokeIds[1]
        IN  /\ dm.currentStroke # NoStroke
            /\ LastStored = IF reported = NoPressure THEN 5 ELSE reported

\* The pen has reported a pressure of 0 and the stroke has stored 0.5.
ZeroStoredAsHalf ==
    /\ hist.call.op = "pen" /\ hist.call.strokeIds[1] = 0
    /\ LastStored = 5

\* The pen has reported the pressure 0.3 and the stroke has stored it.
LightPressureStored ==
    /\ hist.call.op = "pen" /\ hist.call.strokeIds[1] = 3
    /\ LastStored = 3

\* The pen has reported no pressure and the stroke has stored 0.5.
MissingStoredAsHalf ==
    /\ hist.call.op = "pen" /\ hist.call.strokeIds[1] = NoPressure
    /\ LastStored = 5

-----------------------------------------------------------------------------
\* Reflecting strokes drawn at different places.  The caller hands
\* CanvasActions.reflect a list of indices into the scene; the list may name
\* a stroke more than once.

\* The lists of valid indices handed to reflect, repetitions included.
MirrorLists == UNION { [ 1..n -> 0..(MaxStrokes - 1) ] : n \in 1..MaxIds }

\* No index appears twice in the list.
DistinctIds(strokeIds) ==
    \A i, j \in 1..Len(strokeIds) : strokeIds[i] = strokeIds[j] => i = j

\* Where the strokes to reflect start.
MirrorStarts == DrawStarts \cup { << 200, 150 >> }

MirrorDown == \E p \in MirrorStarts : PenDownAt(p)

MirrorCall ==
    /\ ~env.pen /\ TouchesDown(World) = {}
    /\ \E strokeIds \in MirrorLists :
          /\ \A k \in 1..Len(strokeIds) : strokeIds[k] < Len(Scene(World))
          /\ Step([reflect(World, strokeIds) EXCEPT
                     !.hist.call = [op |-> "reflect", strokeIds |-> strokeIds,
                                    strokes |-> Scene(World)]])

MirrorNext ==
    \/ MirrorDown
    \/ DrawMove
    \/ DrawPenUp
    \/ MirrorCall

MirrorSpec == Init /\ [][MirrorNext]_vars

\* The step is a call of reflect with this list.
MirrorStep(strokeIds) ==
    hist'.call.op = "reflect" /\ hist'.call.strokeIds = strokeIds

\* What the call leaves as it was, and what a second call brings back.
MirrorKeeps(strokeIds) ==
    LET before == World
        after == World'
        listed == StrokesOf(before, strokeIds)
        again == reflect(after, strokeIds)
    IN  /\ \A id \in Range(Scene(before)) :
              /\ Len(after.obj[id].points) = Len(before.obj[id].points)
              /\ \A j \in 1..Len(before.obj[id].points) :
                    after.obj[id].points[j][2] = before.obj[id].points[j][2]
              /\ id \notin Range(listed) => after.obj[id] = before.obj[id]
        /\ Extent(after, listed, 1) = Extent(before, listed, 1)
        /\ Extent(after, listed, 2) = Extent(before, listed, 2)
        /\ \A id \in Range(listed) :
              again.obj[id].points = before.obj[id].points

RepeatedIndexStayed ==
    /\ hist.call.op = "reflect" /\ hist.call.strokeIds = << 0, 0, 1 >>
    /\ obj[Scene(World)[1]].points = << << 300, 200 >>, << 300 + DrawReach, 200 >> >>
    /\ obj[Scene(World)[2]].points = << << 300 + DrawReach, 100 >>, << 300, 100 >> >>

=============================================================================
